---- MODULE Spec2Model ----
(***************************************************************************)
(* A state-machine model of the OAuth2/OIDC token endpoint of              *)
(* pkg/lib/oauth/handler/handler_token.go (TokenHandler).                  *)
(*                                                                         *)
(* One action models one whole token request: the handler and every store  *)
(* call it makes.  Opaque strings are small naturals, 0 standing for the   *)
(* empty string; hashing, PKCE transformation and JWK serialisation are    *)
(* injective maps that are not the identity.                               *)
(***************************************************************************)
EXTENDS Integers, FiniteSets, Sequences, TLC

(***************************************************************************)
(* Bounds of the model.                                                    *)
(***************************************************************************)
MaxSteps == 3
MaxTime == 2

(***************************************************************************)
(* Grant types and token types (handler_token.go 51-72).                   *)
(***************************************************************************)
AuthorizationCodeGrantType == "authorization_code"
RefreshTokenGrantType == "refresh_token"
TokenExchangeGrantType == "urn:ietf:params:oauth:grant-type:token-exchange"
AnonymousRequestGrantType == "urn:authgear:params:oauth:grant-type:anonymous-request"
BiometricRequestGrantType == "urn:authgear:params:oauth:grant-type:biometric-request"
App2AppRequestGrantType == "urn:authgear:params:oauth:grant-type:app2app-request"
IDTokenGrantType == "urn:authgear:params:oauth:grant-type:id-token"
SettingsActionGrantType == "urn:authgear:params:oauth:grant-type:settings-action"

PreAuthenticatedURLTokenTokenType == "urn:authgear:params:oauth:token-type:pre-authenticated-url-token"
IDTokenTokenType == "urn:ietf:params:oauth:token-type:id_token"
DeviceSecretTokenType == "urn:x-oath:params:oauth:token-type:device-secret"

whitelistedGrantTypes ==
  { AuthorizationCodeGrantType, RefreshTokenGrantType, AnonymousRequestGrantType,
    BiometricRequestGrantType, App2AppRequestGrantType, IDTokenGrantType,
    SettingsActionGrantType, TokenExchangeGrantType }

(***************************************************************************)
(* Scopes (package oauth).                                                 *)
(***************************************************************************)
OfflineAccess == "offline_access"
FullAccessScope == "https://authgear.com/scopes/full-access"
DeviceSSOScope == "device_sso"
PreAuthenticatedURLScope == "https://authgear.com/scopes/pre-authenticated-url"

ContainsAllScopes(scopes, expected) == expected \subseteq scopes

(***************************************************************************)
(* Errors.  A protocol error carries its OAuth error code and description; *)
(* any other failure is an internal error, which Handle reports as         *)
(* server_error.                                                           *)
(***************************************************************************)
NoError == [kind |-> "none", code |-> "", desc |-> ""]
NewError(code, desc) == [kind |-> "oauth", code |-> code, desc |-> desc]
InternalError(what) == [kind |-> "internal", code |-> "", desc |-> what]

errInvalidAuthzCode == NewError("invalid_grant", "invalid authorization code")
ErrInvalidDPoPKeyBinding == NewError("invalid_grant", "Invalid DPoP key binding")
ErrInvalidRefreshToken == NewError("invalid_grant", "invalid refresh token")

(***************************************************************************)
(* Pure conversions.                                                       *)
(***************************************************************************)
\* oauth.HashToken: the hash of an opaque token; injective, never empty.
HashToken(t) == 2 * t + 1

\* pkce.S256Verifier.Challenge: BASE64URL(SHA256(verifier)).
S256Challenge(v) == 3 * v + 2

\* pkce.NewS256Verifier rejects a verifier it cannot use (RFC 7636 4.1:
\* wrong length or alphabet); verifier 1 stands for such a string and 0
\* for the empty string.
NewS256VerifierFails(v) == v \in {0, 1}

\* S256Verifier.Verify
S256Verify(v, challenge) == S256Challenge(v) = challenge

\* subtle.ConstantTimeCompare(a, b) == 1
ConstantTimeEq(a, b) == a = b

\* json.Marshal of a JWK: the canonical JSON of key k (k >= 1).
MarshalKey(k) == 2 * k

\* jwk.ParseKey: fails on the empty string.
ParseKeyFails(json) == json = 0
ParseKey(json) == json \div 2

\* oidc.EncodeSID / oidc.DecodeSID: a session reference <<type, id>>.
NoSID == <<"", 0>>
EncodeSID(typ, id) == <<typ, id>>
DecodeSIDOK(sid) == sid[1] \in {"idp", "offline_grant"}

(***************************************************************************)
(* Client configuration (config.OAuthClientConfig), as the handler reads   *)
(* it.  Secrets are the octet keys registered in OAuthClientCredentials;   *)
(* HasCredentials tells whether Lookup finds an item for the client.       *)
(***************************************************************************)
ClientIDs == {"spa", "native", "legacy", "backend", "service", "thirdparty", "custom"}

ClientConfig(id) ==
  CASE id = "spa" ->
         [ClientID |-> id, Confidential |-> FALSE,
          GrantTypes |-> {AuthorizationCodeGrantType, RefreshTokenGrantType},
          App2appEnabled |-> TRUE, App2appInsecureDeviceKeyBindingEnabled |-> TRUE,
          MaxConcurrentSession |-> 1, FullAccess |-> TRUE,
          HasCredentials |-> FALSE, Secrets |-> {}]
    [] id = "native" ->
         [ClientID |-> id, Confidential |-> FALSE,
          GrantTypes |-> {AuthorizationCodeGrantType, RefreshTokenGrantType},
          App2appEnabled |-> TRUE, App2appInsecureDeviceKeyBindingEnabled |-> FALSE,
          MaxConcurrentSession |-> 0, FullAccess |-> TRUE,
          HasCredentials |-> FALSE, Secrets |-> {}]
    [] id = "legacy" ->
         [ClientID |-> id, Confidential |-> FALSE,
          GrantTypes |-> {AuthorizationCodeGrantType},
          App2appEnabled |-> FALSE, App2appInsecureDeviceKeyBindingEnabled |-> TRUE,
          MaxConcurrentSession |-> 0, FullAccess |-> FALSE,
          HasCredentials |-> FALSE, Secrets |-> {}]
    [] id = "backend" ->
         [ClientID |-> id, Confidential |-> TRUE,
          GrantTypes |-> {AuthorizationCodeGrantType, RefreshTokenGrantType},
          App2appEnabled |-> FALSE, App2appInsecureDeviceKeyBindingEnabled |-> FALSE,
          MaxConcurrentSession |-> 0, FullAccess |-> FALSE,
          HasCredentials |-> TRUE, Secrets |-> {1, 2}]
    [] id = "custom" ->
         [ClientID |-> id, Confidential |-> FALSE,
          GrantTypes |-> {AuthorizationCodeGrantType, "password"},
          App2appEnabled |-> FALSE, App2appInsecureDeviceKeyBindingEnabled |-> FALSE,
          MaxConcurrentSession |-> 0, FullAccess |-> FALSE,
          HasCredentials |-> FALSE, Secrets |-> {}]
    [] id = "service" ->
         [ClientID |-> id, Confidential |-> TRUE,
          GrantTypes |-> {AuthorizationCodeGrantType},
          App2appEnabled |-> FALSE, App2appInsecureDeviceKeyBindingEnabled |-> FALSE,
          MaxConcurrentSession |-> 1, FullAccess |-> FALSE,
          HasCredentials |-> TRUE, Secrets |-> {1}]
    [] OTHER ->
         [ClientID |-> id, Confidential |-> TRUE,
          GrantTypes |-> {AuthorizationCodeGrantType},
          App2appEnabled |-> FALSE, App2appInsecureDeviceKeyBindingEnabled |-> FALSE,
          MaxConcurrentSession |-> 0, FullAccess |-> FALSE,
          HasCredentials |-> FALSE, Secrets |-> {}]

IsConfidential(client) == client.Confidential
IsPublic(client) == ~client.Confidential

\* resolveClient: nil for an unknown client ID.
ClientResolves(id) == id \in ClientIDs

(***************************************************************************)
(* State.                                                                  *)
(***************************************************************************)
VARIABLES
  now,             \* Clock.NowUTC()
  codeGrants,      \* code-grant store: a set of CodeGrant records, keyed by CodeHash
  settingsActionGrants,  \* settings-action grant store, keyed by CodeHash
  authorizations,  \* Authorization records, keyed by ID
  offlineGrants,   \* offline-grant store: OfflineGrant records, keyed by ID
  challenges,      \* challenge store: [Token, Purpose] records
  idTokens,        \* the ID tokens signed by IDTokenIssuer so far
  nextToken,       \* source of fresh random tokens and IDs
  steps,           \* number of token requests handled
  hist,            \* history: what earlier requests consumed or retired
  last,            \* << >>, or the request being answered with its result
  inflight         \* << >>, or the request-scoped executions that run concurrently

vars == <<now, codeGrants, settingsActionGrants, authorizations, offlineGrants, challenges, idTokens,
          nextToken, steps, hist, last, inflight>>

(***************************************************************************)
(* The accumulated token response (protocol.TokenResponse).                *)
(***************************************************************************)
EmptyResponse ==
  [access_token |-> {}, refresh_token |-> 0, id_token |-> {}, device_secret |-> 0,
   code |-> 0, issued_token_type |-> ""]

IssuesTokens(resp) ==
  \/ resp.access_token # {}
  \/ resp.refresh_token # 0
  \/ resp.id_token # {}
  \/ resp.device_secret # 0

(***************************************************************************)
(* The state a handler threads through its calls: the stores, the token    *)
(* source, the response being assembled and the order of the calls made to *)
(* the collaborators.  Effects made before an error stay made.             *)
(***************************************************************************)
Begin ==
  [cg |-> codeGrants, sg |-> settingsActionGrants, az |-> authorizations,
   og |-> offlineGrants, ch |-> challenges,
   ids |-> idTokens, tok |-> nextToken, resp |-> EmptyResponse, calls |-> << >>,
   keyUpdates |-> << >>, rotations |-> << >>, bindings |-> << >>]

Called(st, name) == [st EXCEPT !.calls = Append(@, name)]

Ret(e, st, v) == [err |-> e, st |-> st, val |-> v]
Ok(st) == Ret(NoError, st, 0)
Fail(st, e) == Ret(e, st, 0)
Failed(res) == res.err.kind # "none"

\* An infrastructure fault injected into at most one collaborator call of a request.
Faulty(r, call) == r.fault = call

(***************************************************************************)
(* Store lookups.                                                          *)
(***************************************************************************)
HasCodeGrant(cg, codeHash) == \E g \in cg : g.CodeHash = codeHash
GetCodeGrant(cg, codeHash) == CHOOSE g \in cg : g.CodeHash = codeHash

HasAuthorization(az, id) == \E a \in az : a.ID = id
GetAuthorization(az, id) == CHOOSE a \in az : a.ID = id

HasOfflineGrant(og, id) == \E g \in og : g.ID = id
GetOfflineGrant(og, id) == CHOOSE g \in og : g.ID = id
PutOfflineGrant(og, g) == {x \in og : x.ID # g.ID} \cup {g}

\* OfflineGrantService.ComputeOfflineGrantExpiry
OfflineGrantLifetime == 2
ComputeOfflineGrantExpiry(g) == now + OfflineGrantLifetime

\* CodeGrant.MatchDPoPJKT / OfflineGrant.MatchDeviceSecretDPoPJKT: a grant
\* bound to no key matches anything; a bound grant needs a proof with its JKT.
MatchDPoPJKT(boundJKT, proofJKT) ==
  \/ boundJKT = 0
  \/ proofJKT # 0 /\ ConstantTimeEq(proofJKT, boundJKT)

(***************************************************************************)
(* Device-secret rotation (handler_token.go 396-454).                      *)
(***************************************************************************)
\* TokenService.IssueDeviceSecret: a fresh random secret goes into the
\* response; only its hash is returned.
IssueDeviceSecret(st) ==
  Ret(NoError,
      [st EXCEPT !.tok = @ + 1, !.resp.device_secret = st.tok],
      HashToken(st.tok))

\* OfflineGrants.UpdateOfflineGrantDeviceSecretHash
UpdateOfflineGrantDeviceSecretHash(og, id, hash, jkt, expiry) ==
  PutOfflineGrant(og, [GetOfflineGrant(og, id) EXCEPT
                         !.DeviceSecretHash = hash,
                         !.DeviceSecretDPoPJKT = jkt,
                         !.ExpireAt = expiry])

\* A rotation that answers with a new secret and leaves the stored hash.
rotateDeviceSecretKeepsHash(st, r, g) ==
  Ret(NoError, IssueDeviceSecret(st).st, g)

\* A rotation that stores the new hash before it computes the expiry.
rotateDeviceSecretInTwoWrites(st, r, g) ==
  LET dpopJKT == r.dpop
      issued == IssueDeviceSecret(st)
      written == [issued.st EXCEPT !.og =
                    IF HasOfflineGrant(@, g.ID)
                      THEN PutOfflineGrant(@, [GetOfflineGrant(@, g.ID) EXCEPT
                                                 !.DeviceSecretHash = issued.val])
                    ELSE @]
      st1 == Called(written, "ComputeOfflineGrantExpiry")
      expiry == ComputeOfflineGrantExpiry(g)
      st2 == Called(st1, "UpdateOfflineGrantDeviceSecretHash")
  IN IF Faulty(r, "ComputeOfflineGrantExpiry")
       THEN Fail(st1, InternalError("ComputeOfflineGrantExpiry"))
     ELSE IF Faulty(r, "UpdateOfflineGrantDeviceSecretHash") \/ ~HasOfflineGrant(st2.og, g.ID)
       THEN Fail(st2, InternalError("UpdateOfflineGrantDeviceSecretHash"))
     ELSE LET og2 == UpdateOfflineGrantDeviceSecretHash(st2.og, g.ID, issued.val, dpopJKT, expiry)
          IN Ret(NoError, [st2 EXCEPT !.og = og2], GetOfflineGrant(og2, g.ID))

rotateDeviceSecret(st, r, g) ==
  LET dpopJKT == r.dpop
      issued == IssueDeviceSecret(st)
      st1 == Called(issued.st, "ComputeOfflineGrantExpiry")
      expiry == ComputeOfflineGrantExpiry(g)
      st2 == Called(st1, "UpdateOfflineGrantDeviceSecretHash")
  IN IF Faulty(r, "ComputeOfflineGrantExpiry")
       THEN Fail(st1, InternalError("ComputeOfflineGrantExpiry"))
     ELSE IF Faulty(r, "UpdateOfflineGrantDeviceSecretHash") \/ ~HasOfflineGrant(st2.og, g.ID)
       THEN Fail(st2, InternalError("UpdateOfflineGrantDeviceSecretHash"))
     ELSE LET og2 == UpdateOfflineGrantDeviceSecretHash(st2.og, g.ID, issued.val, dpopJKT, expiry)
          IN Ret(NoError, [st2 EXCEPT !.og = og2], GetOfflineGrant(og2, g.ID))

\* A rotation that does not look at the scopes.
rotateDeviceSecretWhateverScope(st, r, authorizedScopes, g) ==
  LET rotated(res) ==
        IF Failed(res) THEN res
        ELSE Ret(NoError, res.st, [grant |-> res.val, rotated |-> TRUE])
  IN rotated(rotateDeviceSecret(st, r, g))

\* Returns the grant and whether it was rotated.
rotateDeviceSecretIfSufficientScope(st, r, authorizedScopes, g) ==
  LET rotated(res) ==
        IF Failed(res) THEN res
        ELSE Ret(NoError, res.st, [grant |-> res.val, rotated |-> TRUE])
  IN IF ~ContainsAllScopes(authorizedScopes, {DeviceSSOScope})
       THEN Ret(NoError, st, [grant |-> g, rotated |-> FALSE])
     ELSE rotated(rotateDeviceSecret(st, r, g))

\* A conditional rotation that does not compare the secret with the grant.
rotateDeviceSecretIfDeviceSecretIsPresent(st, r, deviceSecret, authorizedScopes, g) ==
  IF deviceSecret = 0
    THEN Ret(NoError, st, [grant |-> g, rotated |-> FALSE])
  ELSE rotateDeviceSecretIfSufficientScope(st, r, authorizedScopes, g)

rotateDeviceSecretIfDeviceSecretIsPresentAndValid(st, r, deviceSecret, authorizedScopes, g) ==
  IF deviceSecret = 0
    THEN Ret(NoError, st, [grant |-> g, rotated |-> FALSE])
  ELSE IF ~ConstantTimeEq(HashToken(deviceSecret), g.DeviceSecretHash)
    THEN Ret(NoError, st, [grant |-> g, rotated |-> FALSE])
  ELSE rotateDeviceSecretIfSufficientScope(st, r, authorizedScopes, g)

(***************************************************************************)
(* App2app device-key binding (handler_token.go 456-487).                  *)
(***************************************************************************)
\* OfflineGrants.UpdateOfflineGrantApp2AppDeviceKey
UpdateOfflineGrantApp2AppDeviceKey(og, id, newKey, expiry) ==
  PutOfflineGrant(og, [GetOfflineGrant(og, id) EXCEPT
                         !.App2AppDeviceKeyJWKJSON = newKey,
                         !.ExpireAt = expiry])

\* A key update that writes the key again when it is the one bound.
app2appUpdateDeviceKeyRewritesSameKey(st, r, client, g, app2AppDeviceKey) ==
  IF app2AppDeviceKey # 0 /\ client.App2appEnabled
    THEN LET og2 == UpdateOfflineGrantApp2AppDeviceKey(
                      st.og, g.ID, MarshalKey(app2AppDeviceKey),
                      ComputeOfflineGrantExpiry(g))
         IN IF ~HasOfflineGrant(st.og, g.ID) THEN Ret(NoError, st, g)
            ELSE Ret(NoError,
                     [Called(st, "UpdateOfflineGrantApp2AppDeviceKey") EXCEPT !.og = og2],
                     GetOfflineGrant(og2, g.ID))
  ELSE Ret(NoError, st, g)

\* A key update that does not ask whether a key is already bound.
app2appUpdateDeviceKeyRebinds(st, r, client, g, app2AppDeviceKey) ==
  IF app2AppDeviceKey # 0 /\ client.App2appEnabled
       /\ client.App2appInsecureDeviceKeyBindingEnabled /\ HasOfflineGrant(st.og, g.ID)
    THEN LET og2 == UpdateOfflineGrantApp2AppDeviceKey(
                      st.og, g.ID, MarshalKey(app2AppDeviceKey),
                      ComputeOfflineGrantExpiry(g))
         IN Ret(NoError,
                [Called(st, "UpdateOfflineGrantApp2AppDeviceKey") EXCEPT !.og = og2],
                GetOfflineGrant(og2, g.ID))
  ELSE Ret(NoError, st, g)

\* app2AppDeviceKey = 0 is the nil key.
app2appUpdateDeviceKey(st, r, client, g, app2AppDeviceKey) ==
  IF app2AppDeviceKey # 0 /\ client.App2appEnabled
    THEN LET newKeyJson == MarshalKey(app2AppDeviceKey)
             isSameKey == ConstantTimeEq(newKeyJson, g.App2AppDeviceKeyJWKJSON)
             st1 == Called(st, "ComputeOfflineGrantExpiry")
             expiry == ComputeOfflineGrantExpiry(g)
             st2 == Called(st1, "UpdateOfflineGrantApp2AppDeviceKey")
         IN IF isSameKey
              THEN Ret(NoError, st, g)
            ELSE IF ~client.App2appInsecureDeviceKeyBindingEnabled
              THEN Fail(st, NewError("invalid_request",
                     "x_app2app_insecure_device_key_binding_enabled must be true to allow updating x_app2app_device_key_jwt"))
            ELSE IF g.App2AppDeviceKeyJWKJSON # 0
              THEN Fail(st, NewError("invalid_grant", "app2app device key cannot be changed"))
            ELSE IF Faulty(r, "ComputeOfflineGrantExpiry")
              THEN Fail(st1, InternalError("ComputeOfflineGrantExpiry"))
            ELSE IF Faulty(r, "UpdateOfflineGrantApp2AppDeviceKey") \/ ~HasOfflineGrant(st2.og, g.ID)
              THEN Fail(st2, InternalError("UpdateOfflineGrantApp2AppDeviceKey"))
            ELSE LET og2 == UpdateOfflineGrantApp2AppDeviceKey(st2.og, g.ID, newKeyJson, expiry)
                 IN Ret(NoError, [st2 EXCEPT !.og = og2], GetOfflineGrant(og2, g.ID))
  ELSE Ret(NoError, st, g)

\* The call as the handlers make it, with the call recorded for inspection:
\* the client and grant it was given, the key, its error and the store
\* before and after.
app2appUpdateDeviceKeyIfNeeded(st, r, client, g, app2AppDeviceKey) ==
  LET recorded(res) ==
        Ret(res.err,
            [res.st EXCEPT !.keyUpdates =
               Append(@, [client |-> client.ClientID, grant |-> g, key |-> app2AppDeviceKey,
                          err |-> res.err, out |-> IF Failed(res) THEN {} ELSE {res.val},
                          ogBefore |-> st.og, ogAfter |-> res.st.og,
                          calls |-> Len(res.st.calls) - Len(st.calls)])],
            res.val)
  IN recorded(app2appUpdateDeviceKey(st, r, client, g, app2AppDeviceKey))

(***************************************************************************)
(* App2app JWT and challenge (handler_token.go 368-394).  A JWT is         *)
(* [form, challenge, key, signer]: the challenge and the device key it     *)
(* embeds and the key that signed it.                                      *)
(***************************************************************************)
NoJWT == [form |-> "none", challenge |-> 0, key |-> 0, signer |-> 0]
PurposeApp2AppRequest == "app2app-request"

HasChallenge(ch, token) == \E c \in ch : c.Token = token
GetChallenge(ch, token) == CHOOSE c \in ch : c.Token = token

\* App2App.ParseToken(jwt, key): the signature verifies under key.
ParseTokenOK(jwt, key) == jwt.signer = key

\* A verification that accepts a challenge of any purpose.
app2appVerifyAndConsumeChallengeOfAnyPurpose(st, r, jwt) ==
  LET st1 == Called(st, "ParseTokenUnverified")
      st2 == Called(st1, "Challenges.Consume")
  IN IF jwt.form # "ok"
       THEN Fail(st1, NewError("invalid_request", "invalid app2app jwt payload"))
     ELSE IF ~HasChallenge(st2.ch, jwt.challenge)
       THEN Fail(st2, NewError("invalid_request", "invalid app2app jwt challenge"))
     ELSE Ret(NoError, [st2 EXCEPT !.ch = @ \ {GetChallenge(st2.ch, jwt.challenge)}],
              jwt.key)

\* Returns the embedded key.
app2appVerifyAndConsumeChallenge(st, r, jwt) ==
  LET st1 == Called(st, "ParseTokenUnverified")
      st2 == Called(st1, "Challenges.Consume")
  IN IF jwt.form # "ok"
       THEN Fail(st1, NewError("invalid_request", "invalid app2app jwt payload"))
     ELSE IF Faulty(r, "Challenges.Consume") \/ ~HasChallenge(st2.ch, jwt.challenge)
       THEN Fail(st2, NewError("invalid_request", "invalid app2app jwt challenge"))
     ELSE LET c == GetChallenge(st2.ch, jwt.challenge)
              st3 == [st2 EXCEPT !.ch = @ \ {c}]
          IN IF c.Purpose # PurposeApp2AppRequest
               THEN Fail(st3, NewError("invalid_request", "invalid app2app jwt challenge"))
             ELSE Ret(NoError, st3, jwt.key)

app2appGetDeviceKeyJWKVerified(st, r, jwt) ==
  LET verifySignature(res) ==
        IF Failed(res) THEN res
        ELSE IF ~ParseTokenOK(jwt, res.val)
          THEN Fail(Called(res.st, "ParseToken"),
                    NewError("invalid_request", "invalid app2app jwt signature"))
        ELSE Ret(NoError, Called(res.st, "ParseToken"), res.val)
  IN verifySignature(app2appVerifyAndConsumeChallenge(st, r, jwt))

(***************************************************************************)
(* Token service and issuers (external to the handler).                    *)
(***************************************************************************)
ClientOfflineGrants(og, clientID, userID) ==
  {g \in og : g.UserID = userID /\ \E t \in g.RefreshTokens : t.ClientID = clientID}

\* TokenService.IssueOfflineGrant: a new grant with a fresh ID and a fresh
\* refresh token; the refresh token and device secret go into the response
\* when there is one.
IssueOfflineGrant(st, client, opts, withResp) ==
  LET id == st.tok
      refreshToken == st.tok + 1
      deviceSecret == IF opts.IssueDeviceSecret THEN st.tok + 2 ELSE 0
      tokenHash == HashToken(refreshToken)
      g == [ID |-> id, InitialClientID |-> client.ClientID, UserID |-> opts.UserID,
            IdentityID |-> opts.IdentityID, IDPSessionID |-> opts.IDPSessionID,
            SSOEnabled |-> opts.SSOEnabled,
            DeviceSecretHash |-> IF deviceSecret = 0 THEN 0 ELSE HashToken(deviceSecret),
            DeviceSecretDPoPJKT |-> IF deviceSecret = 0 THEN 0 ELSE opts.DPoPJKT,
            App2AppDeviceKeyJWKJSON |->
              IF opts.App2AppDeviceKey = 0 THEN 0 ELSE MarshalKey(opts.App2AppDeviceKey),
            AuthenticatedAt |-> opts.AuthenticatedAt,
            ExpireAt |-> now + OfflineGrantLifetime,
            LastAccess |-> now,
            RefreshTokens |-> {[TokenHash |-> tokenHash, ClientID |-> client.ClientID,
                                Scopes |-> opts.Scopes,
                                AuthorizationID |-> opts.AuthorizationID]}]
      resp2 == IF withResp
                 THEN [st.resp EXCEPT !.refresh_token = refreshToken,
                                      !.device_secret = IF deviceSecret = 0 THEN @ ELSE deviceSecret]
               ELSE st.resp
  IN Ret(NoError,
         [st EXCEPT !.tok = @ + 3, !.og = @ \cup {g}, !.resp = resp2],
         [grant |-> g, tokenHash |-> tokenHash])

\* TokenService.IssueRefreshTokenForOfflineGrant: one more refresh token
\* on an existing grant.
IssueRefreshTokenForOfflineGrant(st, id, client, scopes, authzID) ==
  IF ~HasOfflineGrant(st.og, id)
    THEN Fail(st, InternalError("IssueRefreshTokenForOfflineGrant"))
  ELSE LET refreshToken == st.tok
           tokenHash == HashToken(refreshToken)
           g == [GetOfflineGrant(st.og, id) EXCEPT
                   !.RefreshTokens = @ \cup {[TokenHash |-> tokenHash,
                                              ClientID |-> client.ClientID,
                                              Scopes |-> scopes,
                                              AuthorizationID |-> authzID]}]
       IN Ret(NoError,
              [st EXCEPT !.tok = @ + 1, !.og = PutOfflineGrant(@, g),
                         !.resp.refresh_token = refreshToken],
              [grant |-> g, tokenHash |-> tokenHash])

\* TokenService.IssueAccessGrant: the access token encodes the AccessGrant.
IssueAccessGrant(st, r, client, scopes, authzID, userID, sessionID, sessionKind, refreshTokenHash) ==
  IF Faulty(r, "IssueAccessGrant")
    THEN Fail(Called(st, "IssueAccessGrant"), InternalError("IssueAccessGrant"))
  ELSE Ok([Called(st, "IssueAccessGrant") EXCEPT
             !.resp.access_token =
               {[ClientID |-> client.ClientID, Scopes |-> scopes, AuthorizationID |-> authzID,
                 UserID |-> userID, SessionID |-> sessionID, SessionKind |-> sessionKind,
                 RefreshTokenHash |-> refreshTokenHash]}])

\* IDTokenIssuer.IssueIDToken: the signed claims that matter here.
IssueIDToken(st, r, client, sid, deviceSecretHash) ==
  IF Faulty(r, "IssueIDToken")
    THEN Fail(Called(st, "IssueIDToken"), InternalError("IssueIDToken"))
  ELSE LET t == [ClientID |-> client.ClientID, SID |-> sid, ds_hash |-> deviceSecretHash]
       IN Ok([Called(st, "IssueIDToken") EXCEPT !.ids = @ \cup {t}, !.resp.id_token = {t}])

(***************************************************************************)
(* Offline grant issuance (handler_token.go 1409-1443).                    *)
(***************************************************************************)
\* A revocation that takes a grant to belong to the client it was first
\* issued to.
revokeGrantsOfInitialClient(st, r, client, userID) ==
  LET st1 == Called(st, "ListClientOfflineGrants")
      grants == {g \in st1.og : g.UserID = userID /\ g.InitialClientID = client.ClientID}
  IN IF Faulty(r, "ListClientOfflineGrants")
       THEN Fail(st1, InternalError("ListClientOfflineGrants"))
     ELSE IF grants = {} THEN Ok(st1)
     ELSE IF Faulty(r, "RevokeWithoutEvent")
       THEN Fail(Called(st1, "RevokeWithoutEvent"), InternalError("RevokeWithoutEvent"))
     ELSE Ok([Called(st1, "RevokeWithoutEvent") EXCEPT !.og = @ \ grants])

\* SessionManager.RevokeWithoutEvent on every grant of (client, user).
revokeClientOfflineGrants(st, r, client, userID) ==
  LET st1 == Called(st, "ListClientOfflineGrants")
      grants == ClientOfflineGrants(st1.og, client.ClientID, userID)
  IN IF Faulty(r, "ListClientOfflineGrants")
       THEN Fail(st1, InternalError("ListClientOfflineGrants"))
     ELSE IF grants = {} THEN Ok(st1)
     ELSE IF Faulty(r, "RevokeWithoutEvent")
       THEN Fail(Called(st1, "RevokeWithoutEvent"), InternalError("RevokeWithoutEvent"))
     ELSE Ok([Called(st1, "RevokeWithoutEvent") EXCEPT !.og = @ \ grants])

\* A grant issuance that never revokes the grants the client already has.
issueOfflineGrantKeepsExisting(st, r, client, userID, withResp, opts, revokeExistingGrants) ==
  IF Faulty(r, "IssueOfflineGrant")
    THEN Fail(Called(st, "IssueOfflineGrant"), InternalError("IssueOfflineGrant"))
  ELSE IssueOfflineGrant(Called(st, "IssueOfflineGrant"), client, opts, withResp)

issueOfflineGrant(st, r, client, userID, withResp, opts, revokeExistingGrants) ==
  LET issue(revoked) ==
        IF Failed(revoked) THEN revoked
        ELSE IF Faulty(r, "IssueOfflineGrant")
          THEN Fail(Called(revoked.st, "IssueOfflineGrant"), InternalError("IssueOfflineGrant"))
        ELSE IssueOfflineGrant(Called(revoked.st, "IssueOfflineGrant"), client, opts, withResp)
  IN issue(IF revokeExistingGrants /\ client.MaxConcurrentSession = 1
             THEN revokeClientOfflineGrants(st, r, client, userID)
           ELSE Ok(st))

shouldIssueDeviceSecret(scopes) == DeviceSSOScope \in scopes

(***************************************************************************)
(* Authorization-code exchange: token issuance                             *)
(* (doIssueTokensForAuthorizationCode, handler_token.go 1446-1687).        *)
(***************************************************************************)
\* OfflineGrants.UpdateOfflineGrantAuthenticatedAt
UpdateOfflineGrantAuthenticatedAt(og, id, authenticatedAt, expiry) ==
  PutOfflineGrant(og, [GetOfflineGrant(og, id) EXCEPT
                         !.AuthenticatedAt = authenticatedAt,
                         !.ExpireAt = expiry])

\* A reauthentication that writes the auth time of the code whatever the
\* grant has.
codeReauthWithoutComparison(st, r, client, code, app2appDevicePublicKey) ==
  LET sid == code.IDTokenHintSID
      st0 == Called(st, "GetOfflineGrant")
      \* 1519-1527
      done(upd) == IF Failed(upd) THEN upd ELSE Ok(upd.st)
      bindKey(rot) ==
        IF Failed(rot) THEN rot
        ELSE IF app2appDevicePublicKey = 0 THEN Ok(rot.st)
        ELSE done(app2appUpdateDeviceKeyIfNeeded(rot.st, r, client, rot.val.grant,
                                                 app2appDevicePublicKey))
      \* 1514-1517
      rotate(g, authTime) ==
        IF Failed(authTime) THEN authTime
        ELSE bindKey(rotateDeviceSecretIfSufficientScope(authTime.st, r, code.Scopes, g))
      \* 1502-1512
      updateAuthTime(g) ==
        LET st1 == Called(st0, "ComputeOfflineGrantExpiry")
            st2 == Called(st1, "UpdateOfflineGrantAuthenticatedAt")
        IN rotate(g,
                  IF Faulty(r, "ComputeOfflineGrantExpiry")
                    THEN Fail(st1, InternalError("ComputeOfflineGrantExpiry"))
                  ELSE IF Faulty(r, "UpdateOfflineGrantAuthenticatedAt")
                    THEN Fail(st2, InternalError("UpdateOfflineGrantAuthenticatedAt"))
                  ELSE Ok([st2 EXCEPT !.og = UpdateOfflineGrantAuthenticatedAt(
                                                @, g.ID, code.AuthenticatedAt,
                                                ComputeOfflineGrantExpiry(g))]))
  IN IF ~(sid # NoSID /\ DecodeSIDOK(sid) /\ sid[1] = "offline_grant") THEN Ok(st)
     ELSE IF Faulty(r, "GetOfflineGrant") \/ ~HasOfflineGrant(st0.og, sid[2]) THEN Ok(st0)
     ELSE updateAuthTime(GetOfflineGrant(st0.og, sid[2]))

\* Reauth (1495-1528): with an id_token_hint SID of an offline grant, update
\* auth_time, rotate the device secret and bind the app2app device key.
codeReauth(st, r, client, code, app2appDevicePublicKey) ==
  LET sid == code.IDTokenHintSID
      st0 == Called(st, "GetOfflineGrant")
      \* 1519-1527
      done(upd) == IF Failed(upd) THEN upd ELSE Ok(upd.st)
      bindKey(rot) ==
        IF Failed(rot) THEN rot
        ELSE IF app2appDevicePublicKey = 0 THEN Ok(rot.st)
        ELSE done(app2appUpdateDeviceKeyIfNeeded(rot.st, r, client, rot.val.grant,
                                                 app2appDevicePublicKey))
      \* 1514-1517
      rotate(g, authTime) ==
        IF Failed(authTime) THEN authTime
        ELSE bindKey(rotateDeviceSecretIfSufficientScope(authTime.st, r, code.Scopes, g))
      \* 1502-1512
      updateAuthTime(g) ==
        LET st1 == Called(st0, "ComputeOfflineGrantExpiry")
            st2 == Called(st1, "UpdateOfflineGrantAuthenticatedAt")
        IN rotate(g,
                  IF ~(code.AuthenticatedAt > g.AuthenticatedAt) THEN Ok(st0)
                  ELSE IF Faulty(r, "ComputeOfflineGrantExpiry")
                    THEN Fail(st1, InternalError("ComputeOfflineGrantExpiry"))
                  ELSE IF Faulty(r, "UpdateOfflineGrantAuthenticatedAt")
                    THEN Fail(st2, InternalError("UpdateOfflineGrantAuthenticatedAt"))
                  ELSE Ok([st2 EXCEPT !.og = UpdateOfflineGrantAuthenticatedAt(
                                                @, g.ID, code.AuthenticatedAt,
                                                ComputeOfflineGrantExpiry(g))]))
  IN IF ~(sid # NoSID /\ DecodeSIDOK(sid) /\ sid[1] = "offline_grant") THEN Ok(st)
     ELSE IF Faulty(r, "GetOfflineGrant") \/ ~HasOfflineGrant(st0.og, sid[2]) THEN Ok(st0)
     ELSE updateAuthTime(GetOfflineGrant(st0.og, sid[2]))

NoSession ==
  [sid |-> NoSID, sessionID |-> 0, sessionKind |-> "", refreshTokenHash |-> 0,
   deviceSecretHash |-> 0]

OfflineSession(res) ==
  [sid |-> EncodeSID("offline_grant", res.val.grant.ID),
   sessionID |-> res.val.grant.ID, sessionKind |-> "offline_grant",
   refreshTokenHash |-> res.val.tokenHash,
   deviceSecretHash |-> res.val.grant.DeviceSecretHash]

\* The session that backs the access token (1530-1648).
codeIssueSession(st, r, client, code, authz, app2appDevicePublicKey) ==
  LET scopes == code.Scopes
      issueRefreshToken ==
        OfflineAccess \in scopes /\ RefreshTokenGrantType \in client.GrantTypes
      opts == [Scopes |-> scopes, AuthorizationID |-> authz.ID, UserID |-> code.UserID,
               AuthenticatedAt |-> code.AuthenticatedAt,
               IDPSessionID |-> IF code.AuthenticatedBySessionType = "idp"
                                  THEN code.AuthenticatedBySessionID ELSE 0,
               IdentityID |-> 0,
               SSOEnabled |-> code.SSOEnabled,
               App2AppDeviceKey |-> app2appDevicePublicKey,
               IssueDeviceSecret |-> shouldIssueDeviceSecret(scopes),
               DPoPJKT |-> r.dpop]
      sid == code.IDTokenHintSID
      \* 1575-1593: the session of the refresh token, then the event
      withRefreshToken(res) ==
        IF Failed(res) THEN res
        ELSE IF code.ShouldFireAuthenticatedEvent /\ Faulty(r, "DispatchEventOnCommit")
          THEN Fail(Called(res.st, "DispatchEventOnCommit"),
                    InternalError("DispatchEventOnCommit"))
        ELSE Ret(NoError,
                 IF code.ShouldFireAuthenticatedEvent
                   THEN Called(res.st, "DispatchEventOnCommit") ELSE res.st,
                 OfflineSession(res))
      \* 1628-1641: a confidential client gets a grant without a refresh token
      withoutRefreshToken(res) ==
        IF Failed(res) THEN res
        ELSE Ret(NoError, res.st,
                 [OfflineSession(res) EXCEPT !.refreshTokenHash = 0,
                                             !.deviceSecretHash = 0])
  IN IF issueRefreshToken
       THEN withRefreshToken(
              IF code.AuthenticatedBySessionType = "offline_grant"
                THEN IF Faulty(r, "IssueRefreshTokenForOfflineGrant")
                       THEN Fail(Called(st, "IssueRefreshTokenForOfflineGrant"),
                                 InternalError("IssueRefreshTokenForOfflineGrant"))
                     ELSE IssueRefreshTokenForOfflineGrant(
                            Called(st, "IssueRefreshTokenForOfflineGrant"),
                            code.AuthenticatedBySessionID, client, scopes, authz.ID)
              ELSE issueOfflineGrant(st, r, client, code.UserID, TRUE, opts, TRUE))
     ELSE IF sid # NoSID
       THEN IF ~DecodeSIDOK(sid) THEN Ret(NoError, st, [NoSession EXCEPT !.sid = sid])
            ELSE IF sid[1] = "offline_grant"
              THEN LET st1 == Called(st, "GetOfflineGrant")
                   IN IF Faulty(r, "GetOfflineGrant") \/ ~HasOfflineGrant(st1.og, sid[2])
                        THEN Fail(st1, InternalError("GetOfflineGrant"))
                      ELSE Ret(NoError, st1,
                               [sid |-> sid, sessionID |-> sid[2],
                                sessionKind |-> "offline_grant", refreshTokenHash |-> 0,
                                deviceSecretHash |->
                                  GetOfflineGrant(st1.og, sid[2]).DeviceSecretHash])
            ELSE Ret(NoError, st,
                     [sid |-> sid, sessionID |-> sid[2], sessionKind |-> "session",
                      refreshTokenHash |-> 0, deviceSecretHash |-> 0])
     ELSE IF IsConfidential(client)
       THEN withoutRefreshToken(
              issueOfflineGrant(st, r, client, code.UserID, FALSE, opts, FALSE))
     ELSE Ret(NoError, st, NoSession)

\* An issuance that asks the token service for an access token whatever the
\* session.
doIssueTokensWithoutSessionCheck(st, r, client, code, authz) ==
  LET jwt == r.app2app_device_key_jwt
      \* 1663-1684
      issueIDToken(sess, access) ==
        IF Failed(access) THEN access
        ELSE IF "openid" \notin code.Scopes THEN Ok(access.st)
        ELSE IF sess.val.sid = NoSID
          THEN Fail(access.st, NewError("invalid_request", "cannot issue ID token"))
        ELSE IssueIDToken(access.st, r, client, sess.val.sid, sess.val.deviceSecretHash)
      \* 1650-1661
      issueAccessGrant(sess) ==
        IF Failed(sess) THEN sess
        ELSE issueIDToken(sess,
               IssueAccessGrant(sess.st, r, client, code.Scopes, authz.ID, authz.UserID,
                                sess.val.sessionID, sess.val.sessionKind,
                                sess.val.refreshTokenHash))
      \* 1530-1648
      issueSession(keyRes, reauth) ==
        IF Failed(reauth) THEN reauth
        ELSE issueAccessGrant(codeIssueSession(reauth.st, r, client, code, authz, keyRes.val))
      \* 1495-1528
      reauthenticate(keyRes) ==
        IF Failed(keyRes) THEN keyRes
        ELSE issueSession(keyRes, codeReauth(keyRes.st, r, client, code, keyRes.val))
  IN reauthenticate(IF jwt.form # "none" /\ client.App2appEnabled
                      THEN app2appGetDeviceKeyJWKVerified(st, r, jwt)
                    ELSE Ret(NoError, st, 0))

doIssueTokensForAuthorizationCode(st, r, client, code, authz) ==
  LET jwt == r.app2app_device_key_jwt
      \* 1663-1684
      issueIDToken(sess, access) ==
        IF Failed(access) THEN access
        ELSE IF "openid" \notin code.Scopes THEN Ok(access.st)
        ELSE IF sess.val.sid = NoSID
          THEN Fail(access.st, NewError("invalid_request", "cannot issue ID token"))
        ELSE IssueIDToken(access.st, r, client, sess.val.sid, sess.val.deviceSecretHash)
      \* 1650-1661
      issueAccessGrant(sess) ==
        IF Failed(sess) THEN sess
        ELSE IF sess.val.sessionID = 0 \/ sess.val.sessionKind = ""
          THEN Fail(sess.st, NewError("invalid_request", "cannot issue access token"))
        ELSE issueIDToken(sess,
               IssueAccessGrant(sess.st, r, client, code.Scopes, authz.ID, authz.UserID,
                                sess.val.sessionID, sess.val.sessionKind,
                                sess.val.refreshTokenHash))
      \* 1530-1648
      issueSession(keyRes, reauth) ==
        IF Failed(reauth) THEN reauth
        ELSE issueAccessGrant(codeIssueSession(reauth.st, r, client, code, authz, keyRes.val))
      \* 1495-1528
      reauthenticate(keyRes) ==
        IF Failed(keyRes) THEN keyRes
        ELSE issueSession(keyRes, codeReauth(keyRes.st, r, client, code, keyRes.val))
  IN reauthenticate(IF jwt.form # "none" /\ client.App2appEnabled
                      THEN app2appGetDeviceKeyJWKVerified(st, r, jwt)
                    ELSE Ret(NoError, st, 0))

(***************************************************************************)
(* Authorization-code exchange (IssueTokensForAuthorizationCode,           *)
(* handler_token.go 503-597).                                              *)
(***************************************************************************)
\* PKCE asked of public clients only.
needVerifyPKCEPublicOnly(client, codeChallenge, codeVerifier) == IsPublic(client)

\* verify pkce (544-554)
needVerifyPKCE(client, codeChallenge, codeVerifier) ==
  IsPublic(client) \/ codeChallenge # 0 \/ codeVerifier # 0

\* A PKCE step that accepts every usable verifier.
verifyPKCEWithoutChallenge(st, client, codeChallenge, codeVerifier) ==
  IF NewS256VerifierFails(codeVerifier)
    THEN Fail(Called(st, "NewS256Verifier"), errInvalidAuthzCode)
  ELSE Ok(Called(st, "NewS256Verifier"))

verifyPKCE(st, client, codeChallenge, codeVerifier) ==
  IF needVerifyPKCE(client, codeChallenge, codeVerifier)
    THEN IF NewS256VerifierFails(codeVerifier)
           THEN Fail(Called(st, "NewS256Verifier"), errInvalidAuthzCode)
         ELSE IF ~S256Verify(codeVerifier, codeChallenge)
           THEN Fail(Called(st, "NewS256Verifier"), errInvalidAuthzCode)
         ELSE Ok(Called(st, "NewS256Verifier"))
  ELSE Ok(st)

\* A secret step that accepts every non-empty secret.
verifyClientSecretNonEmpty(st, client, clientSecret) ==
  IF IsConfidential(client) /\ clientSecret = 0
    THEN Fail(st, NewError("invalid_request", "invalid client secret"))
  ELSE Ok(st)

\* verify client secret (556-577)
verifyClientSecret(st, client, clientSecret) ==
  IF IsConfidential(client)
    THEN IF clientSecret = 0
           THEN Fail(st, NewError("invalid_request", "invalid client secret"))
         ELSE IF ~client.HasCredentials
           THEN Fail(Called(st, "OAuthClientCredentials.Lookup"),
                     NewError("invalid_request", "client secret is not supported for the client"))
         ELSE IF ~(\E clientSecret2 \in client.Secrets : ConstantTimeEq(clientSecret, clientSecret2))
           THEN Fail(Called(st, "OAuthClientCredentials.Lookup"),
                     NewError("invalid_request", "invalid client secret"))
         ELSE Ok(Called(st, "OAuthClientCredentials.Lookup"))
  ELSE Ok(st)

\* A DeleteCodeGrant that leaves the grant in the store.
DeleteCodeGrantKeepsGrant(st, r, codeGrant) == Called(st, "DeleteCodeGrant")

\* A store whose failing delete has removed the grant all the same.
DeleteCodeGrantRemovesOnFailure(st, r, codeGrant) ==
  [Called(st, "DeleteCodeGrant") EXCEPT !.cg = @ \ {codeGrant}]

\* CodeGrants.DeleteCodeGrant; a failure is logged and swallowed.
DeleteCodeGrant(st, r, codeGrant) ==
  IF Faulty(r, "DeleteCodeGrant")
    THEN Called(st, "DeleteCodeGrant")
  ELSE [Called(st, "DeleteCodeGrant") EXCEPT !.cg = @ \ {codeGrant}]

\* The checks on the stored grant without the expiry check.
codeGrantChecksWithoutExpiry(st, r, client, codeGrant) ==
  LET st1 == Called(st, "ResolveForAuthorizationEndpoint")
      secret(pkce) ==
        IF Failed(pkce) THEN pkce
        ELSE verifyClientSecret(pkce.st, client, r.client_secret)
  IN IF ~MatchDPoPJKT(codeGrant.DPoPJKT, r.dpop)
       THEN Fail(st, ErrInvalidDPoPKeyBinding)
     ELSE IF codeGrant.RedirectURI # r.redirect_uri
       THEN Fail(st1, NewError("invalid_request", "invalid redirect URI"))
     ELSE secret(verifyPKCE(st1, client, codeGrant.CodeChallenge, r.code_verifier))

\* The checks made on the stored grant (521-577), in the order of the code.
codeGrantChecks(st, r, client, codeGrant) ==
  LET st1 == Called(st, "ResolveForAuthorizationEndpoint")
      secret(pkce) ==
        IF Failed(pkce) THEN pkce
        ELSE verifyClientSecret(pkce.st, client, r.client_secret)
  IN IF ~MatchDPoPJKT(codeGrant.DPoPJKT, r.dpop)
       THEN Fail(st, ErrInvalidDPoPKeyBinding)
     ELSE IF Faulty(r, "ResolveForAuthorizationEndpoint")
       THEN Fail(st1, InternalError("ResolveForAuthorizationEndpoint"))
     ELSE IF now > codeGrant.ExpireAt
       THEN Fail(st1, errInvalidAuthzCode)
     ELSE IF codeGrant.RedirectURI # r.redirect_uri
       THEN Fail(st1, NewError("invalid_request", "invalid redirect URI"))
     ELSE secret(verifyPKCE(st1, client, codeGrant.CodeChallenge, r.code_verifier))

\* An exchange that deletes the grant before it issues the tokens.
IssueTokensForAuthorizationCodeDeletesFirst(st, r, client) ==
  LET codeHash == HashToken(r.code)
      st1 == Called(st, "GetCodeGrant")
      issue(codeGrant, checks) ==
        LET st2 == Called(checks.st, "Authorizations.GetByID")
        IN IF Failed(checks) THEN checks
           ELSE IF Faulty(r, "Authorizations.GetByID")
             THEN Fail(st2, InternalError("Authorizations.GetByID"))
           ELSE IF ~HasAuthorization(st2.az, codeGrant.AuthorizationID)
             THEN Fail(st2, errInvalidAuthzCode)
           ELSE doIssueTokensForAuthorizationCode(
                  DeleteCodeGrant(st2, r, codeGrant), r, client, codeGrant,
                  GetAuthorization(st2.az, codeGrant.AuthorizationID))
      check(codeGrant) == issue(codeGrant, codeGrantChecks(st1, r, client, codeGrant))
  IN IF ~r.deviceInfoOK
       THEN Fail(st, NewError("invalid_request", "invalid device info"))
     ELSE IF Faulty(r, "GetCodeGrant")
       THEN Fail(st1, InternalError("GetCodeGrant"))
     ELSE IF ~HasCodeGrant(st1.cg, codeHash)
       THEN Fail(st1, errInvalidAuthzCode)
     ELSE check(GetCodeGrant(st1.cg, codeHash))

IssueTokensForAuthorizationCode(st, r, client) ==
  LET codeHash == HashToken(r.code)
      st1 == Called(st, "GetCodeGrant")
      \* 586-596
      deleteCodeGrant(codeGrant, issued) ==
        IF Failed(issued) THEN issued
        ELSE Ok(DeleteCodeGrant(issued.st, r, codeGrant))
      \* 579-589
      issue(codeGrant, checks) ==
        LET st2 == Called(checks.st, "Authorizations.GetByID")
        IN IF Failed(checks) THEN checks
           ELSE IF Faulty(r, "Authorizations.GetByID")
             THEN Fail(st2, InternalError("Authorizations.GetByID"))
           ELSE IF ~HasAuthorization(st2.az, codeGrant.AuthorizationID)
             THEN Fail(st2, errInvalidAuthzCode)
           ELSE deleteCodeGrant(codeGrant,
                  doIssueTokensForAuthorizationCode(
                    st2, r, client, codeGrant,
                    GetAuthorization(st2.az, codeGrant.AuthorizationID)))
      \* 521-577
      check(codeGrant) == issue(codeGrant, codeGrantChecks(st1, r, client, codeGrant))
  IN IF ~r.deviceInfoOK
       THEN Fail(st, NewError("invalid_request", "invalid device info"))
     ELSE IF Faulty(r, "GetCodeGrant")
       THEN Fail(st1, InternalError("GetCodeGrant"))
     ELSE IF ~HasCodeGrant(st1.cg, codeHash)
       THEN Fail(st1, errInvalidAuthzCode)
     ELSE check(GetCodeGrant(st1.cg, codeHash))

(***************************************************************************)
(* A token request (protocol.TokenRequest) with the request context: the   *)
(* DPoP proof's JKT, the session resolved for the caller, and the          *)
(* collaborator call that fails during the request, if any.                *)
(***************************************************************************)
NoSessionCtx == [kind |-> "none", id |-> 0, tokenHash |-> 0]

BaseRequest ==
  [grant_type |-> AuthorizationCodeGrantType, client_id |-> "spa",
   code |-> 0, redirect_uri |-> 0, code_verifier |-> 0, client_secret |-> 0,
   refresh_token |-> 0, jwt |-> NoJWT, app2app_device_key_jwt |-> NoJWT,
   device_secret |-> 0, subject_token |-> {}, subject_token_type |-> "",
   actor_token |-> 0, actor_token_type |-> "", requested_token_type |-> "",
   audience |-> "", scope |-> {}, code_challenge |-> 0, code_challenge_method |-> "",
   dpop |-> 0, deviceInfoOK |-> TRUE, session |-> NoSessionCtx, fault |-> "none"]

(***************************************************************************)
(* Dispatcher (handler_token.go 230-364).                                  *)
(***************************************************************************)
\* A validation that lets a grant type it does not know pass.
validateRequestWithoutDefault(r, client) ==
  CASE r.grant_type \in {SettingsActionGrantType, AuthorizationCodeGrantType} ->
         IF r.code = 0 THEN NewError("invalid_request", "code is required")
         ELSE IF IsPublic(client) /\ r.code_verifier = 0
           THEN NewError("invalid_request", "PKCE code verifier is required")
         ELSE IF IsConfidential(client) /\ r.client_secret = 0
           THEN NewError("invalid_request", "client secret is required")
         ELSE NoError
    [] r.grant_type = RefreshTokenGrantType ->
         IF r.refresh_token = 0 THEN NewError("invalid_request", "refresh token is required")
         ELSE NoError
    [] r.grant_type \in {AnonymousRequestGrantType, BiometricRequestGrantType,
                         App2AppRequestGrantType} ->
         IF r.jwt.form = "none" THEN NewError("invalid_request", "jwt is required")
         ELSE NoError
    [] OTHER -> NoError

validateRequest(r, client) ==
  CASE r.grant_type \in {SettingsActionGrantType, AuthorizationCodeGrantType} ->
         IF r.code = 0 THEN NewError("invalid_request", "code is required")
         ELSE IF IsPublic(client) /\ r.code_verifier = 0
           THEN NewError("invalid_request", "PKCE code verifier is required")
         ELSE IF IsConfidential(client) /\ r.client_secret = 0
           THEN NewError("invalid_request", "client secret is required")
         ELSE NoError
    [] r.grant_type = RefreshTokenGrantType ->
         IF r.refresh_token = 0 THEN NewError("invalid_request", "refresh token is required")
         ELSE NoError
    [] r.grant_type \in {AnonymousRequestGrantType, BiometricRequestGrantType} ->
         IF r.jwt.form = "none" THEN NewError("invalid_request", "jwt is required")
         ELSE NoError
    [] r.grant_type = App2AppRequestGrantType ->
         IF r.jwt.form = "none" THEN NewError("invalid_request", "jwt is required")
         ELSE IF r.refresh_token = 0
           THEN NewError("invalid_request", "refresh token is required")
         ELSE IF r.client_id = "" THEN NewError("invalid_request", "client id is required")
         ELSE IF r.redirect_uri = 0 THEN NewError("invalid_request", "redirect uri is required")
         ELSE IF r.code_challenge # 0 /\ r.code_challenge_method # "S256"
           THEN NewError("invalid_request", "only 'S256' PKCE transform is supported")
         ELSE NoError
    [] r.grant_type \in {IDTokenGrantType, TokenExchangeGrantType} -> NoError
    [] OTHER -> NewError("unsupported_grant_type", "grant type is not supported")

(***************************************************************************)
(* Refresh-token grant (handler_token.go 599-641, 1689-1737).              *)
(***************************************************************************)
GrantOfRefreshToken(og, tokenHash) ==
  {g \in og : \E t \in g.RefreshTokens : t.TokenHash = tokenHash}

\* OfflineGrant.ToSession: the view of the grant for one refresh-token hash.
ToSession(g, tokenHash) ==
  LET t == CHOOSE t \in g.RefreshTokens : t.TokenHash = tokenHash
  IN [OfflineGrant |-> g, ClientID |-> t.ClientID, Scopes |-> t.Scopes,
      TokenHash |-> tokenHash, AuthorizationID |-> t.AuthorizationID]

\* TokenService.ParseRefreshToken: the grant must exist, be unexpired, hold
\* the token's hash and have its authorization.
ParseRefreshToken(st, r) ==
  LET tokenHash == HashToken(r.refresh_token)
      st1 == Called(st, "ParseRefreshToken")
      found == GrantOfRefreshToken(st1.og, tokenHash)
  IN IF Faulty(r, "ParseRefreshToken")
       THEN Fail(st1, InternalError("ParseRefreshToken"))
     ELSE IF found = {} THEN Fail(st1, ErrInvalidRefreshToken)
     ELSE LET g == CHOOSE g \in found : TRUE
              session == ToSession(g, tokenHash)
          IN IF now > g.ExpireAt THEN Fail(st1, ErrInvalidRefreshToken)
             ELSE IF ~HasAuthorization(st1.az, session.AuthorizationID)
               THEN Fail(st1, ErrInvalidRefreshToken)
             ELSE Ret(NoError, st1, session)

\* A refresh that never issues an ID token.
issueTokensForRefreshTokenWithoutIDToken(st, r, client, session, authz) ==
  LET issueAccessGrant(rot) ==
        IF Failed(rot) THEN rot
        ELSE IssueAccessGrant(rot.st, r, client, session.Scopes, authz.ID, authz.UserID,
                              session.OfflineGrant.ID, "offline_grant", session.TokenHash)
  IN issueAccessGrant(rotateDeviceSecretIfSufficientScope(st, r, session.Scopes,
                                                          session.OfflineGrant))

\* A refresh whose ID token carries the hash the grant had when it was read.
issueTokensForRefreshTokenWithHashAsRead(st, r, client, session, authz) ==
  LET issueAccessGrant(idt) ==
        IF Failed(idt) THEN idt
        ELSE IssueAccessGrant(idt.st, r, client, session.Scopes, authz.ID, authz.UserID,
                              session.OfflineGrant.ID, "offline_grant", session.TokenHash)
      issueIDToken(rot) ==
        IF Failed(rot) THEN rot
        ELSE issueAccessGrant(
               IF "openid" \in session.Scopes
                 THEN IssueIDToken(rot.st, r, client,
                                   EncodeSID("offline_grant", session.OfflineGrant.ID),
                                   session.OfflineGrant.DeviceSecretHash)
               ELSE Ok(rot.st))
  IN issueIDToken(rotateDeviceSecretIfSufficientScope(st, r, session.Scopes,
                                                      session.OfflineGrant))

issueTokensForRefreshToken(st, r, client, session, authz) ==
  LET \* 1718-1734
      issueAccessGrant(idt) ==
        IF Failed(idt) THEN idt
        ELSE IssueAccessGrant(idt.st, r, client, session.Scopes, authz.ID, authz.UserID,
                              session.OfflineGrant.ID, "offline_grant", session.TokenHash)
      \* 1703-1716
      issueIDToken(rot) ==
        IF Failed(rot) THEN rot
        ELSE issueAccessGrant(
               IF "openid" \in session.Scopes
                 THEN IssueIDToken(rot.st, r, client,
                                   EncodeSID("offline_grant", session.OfflineGrant.ID),
                                   rot.val.grant.DeviceSecretHash)
               ELSE Ok(rot.st))
  IN issueIDToken(rotateDeviceSecretIfSufficientScope(st, r, session.Scopes,
                                                      session.OfflineGrant))

\* OfflineGrants.AccessOfflineGrantAndUpdateDeviceInfo
AccessOfflineGrantAndUpdateDeviceInfo(og, id, expiry) ==
  PutOfflineGrant(og, [GetOfflineGrant(og, id) EXCEPT !.LastAccess = now,
                                                      !.ExpireAt = expiry])

handleRefreshToken(st, r, client) ==
  LET \* 618-638
      access(session, issued) ==
        LET st1 == Called(issued.st, "ComputeOfflineGrantExpiry")
            st2 == Called(st1, "AccessOfflineGrantAndUpdateDeviceInfo")
        IN IF Failed(issued) THEN issued
           ELSE IF client.ClientID # session.ClientID
             THEN Fail(issued.st,
                       NewError("invalid_request", "client id doesn't match the refresh token"))
           ELSE IF Faulty(r, "ComputeOfflineGrantExpiry")
             THEN Fail(st1, InternalError("ComputeOfflineGrantExpiry"))
           ELSE IF Faulty(r, "AccessOfflineGrantAndUpdateDeviceInfo")
                   \/ ~HasOfflineGrant(st2.og, session.OfflineGrant.ID)
             THEN Fail(st2, InternalError("AccessOfflineGrantAndUpdateDeviceInfo"))
           ELSE Ok([st2 EXCEPT !.og = AccessOfflineGrantAndUpdateDeviceInfo(
                                        @, session.OfflineGrant.ID,
                                        ComputeOfflineGrantExpiry(session.OfflineGrant))])
      \* 605-616
      issue(parsed) ==
        IF Failed(parsed) THEN parsed
        ELSE access(parsed.val,
                    issueTokensForRefreshToken(
                      parsed.st, r, client, parsed.val,
                      GetAuthorization(parsed.st.az, parsed.val.AuthorizationID)))
  IN IF ~r.deviceInfoOK THEN Fail(st, NewError("invalid_request", "invalid device info"))
     ELSE issue(ParseRefreshToken(st, r))

(***************************************************************************)
(* ID-token grant (handleIDToken, handler_token.go 1356-1407).             *)
(***************************************************************************)
\* session.GetSession: the caller's session, resolved from the request
\* context against the stores; {} when there is none.
GetSession(st, r) ==
  CASE r.session.kind = "idp" -> {[kind |-> "idp", id |-> r.session.id]}
    [] r.session.kind = "offline_grant" ->
         {[kind |-> "offline_grant", id |-> g.ID, session |-> ToSession(g, r.session.tokenHash)] :
            g \in {x \in st.og : x.ID = r.session.id
                                 /\ \E t \in x.RefreshTokens : t.TokenHash = r.session.tokenHash}}
    [] OTHER -> {}

\* The call of rotateDeviceSecretIfDeviceSecretIsPresentAndValid, recorded
\* for inspection.
rotateIfPresentAndValid(st, r, deviceSecret, authorizedScopes, g) ==
  LET recorded(res) ==
        Ret(res.err,
            [res.st EXCEPT !.rotations =
               Append(@, [grant |-> g, presented |-> deviceSecret,
                          scopes |-> authorizedScopes, err |-> res.err,
                          rotated |-> ~Failed(res) /\ res.val.rotated,
                          out |-> IF Failed(res) THEN {} ELSE {res.val.grant},
                          ogBefore |-> st.og, ogAfter |-> res.st.og])],
            res.val)
  IN recorded(rotateDeviceSecretIfDeviceSecretIsPresentAndValid(
                st, r, deviceSecret, authorizedScopes, g))

handleIDToken(st, r, client) ==
  LET s == GetSession(st, r)
      \* 1394-1403
      issueIDToken(sess, rot) ==
        IF Failed(rot) THEN rot
        ELSE IssueIDToken(rot.st, r, client, EncodeSID(sess.kind, sess.id),
                          rot.val.grant.DeviceSecretHash)
      \* 1375-1392
      rotate(sess) ==
        IF sess.kind = "offline_grant"
          THEN issueIDToken(sess,
                 rotateIfPresentAndValid(st, r, r.device_secret, sess.session.Scopes,
                                         sess.session.OfflineGrant))
        ELSE IssueIDToken(st, r, client, EncodeSID(sess.kind, sess.id), 0)
  IN IF ~client.FullAccess
       THEN Fail(st, NewError("unauthorized_client", "this client may not refresh id token"))
     ELSE IF s = {}
       THEN Fail(st, NewError("invalid_grant", "valid session is required"))
     ELSE rotate(CHOOSE x \in s : TRUE)

(***************************************************************************)
(* Token exchange for a pre-authenticated URL token                        *)
(* (handler_token.go 643-836).                                             *)
(***************************************************************************)
Iss == "https://issuer"

\* OfflineGrant.GetScopes / HasAllScopes for one client of the grant.
GetScopes(g, clientID) ==
  UNION {t.Scopes : t \in {x \in g.RefreshTokens : x.ClientID = clientID}}
HasAllScopes(g, clientID, scopes) == scopes \subseteq GetScopes(g, clientID)

\* Authorizations.CheckAndGrant: the authorization of (client, user), with
\* the scopes united into it; created when there is none.
CheckAndGrant(st, r, clientID, userID, scopes) ==
  LET st1 == Called(st, "Authorizations.CheckAndGrant")
      have == {a \in st1.az : a.ClientID = clientID /\ a.UserID = userID}
  IN IF Faulty(r, "Authorizations.CheckAndGrant")
       THEN Fail(st1, InternalError("Authorizations.CheckAndGrant"))
     ELSE IF have = {}
       THEN LET a == [ID |-> st1.tok, ClientID |-> clientID, UserID |-> userID,
                      Scopes |-> scopes]
            IN Ret(NoError, [st1 EXCEPT !.tok = @ + 1, !.az = @ \cup {a}], a)
     ELSE LET old == CHOOSE a \in have : TRUE
              a == [old EXCEPT !.Scopes = @ \cup scopes]
          IN Ret(NoError, [st1 EXCEPT !.az = (@ \ {old}) \cup {a}], a)

\* A verification that leaves out the comparison with ds_hash.
verifyIDTokenDeviceSecretHashWithoutDsHash(r, offlineGrant, idToken, deviceSecret) ==
  IF ~MatchDPoPJKT(offlineGrant.DeviceSecretDPoPJKT, r.dpop)
    THEN ErrInvalidDPoPKeyBinding
  ELSE IF ~ConstantTimeEq(offlineGrant.DeviceSecretHash, HashToken(deviceSecret))
    THEN NewError("invalid_grant", "the device_secret (actor_token) does not bind to the session")
  ELSE NoError

\* A verification that leaves out the comparison with the grant's hash.
verifyIDTokenDeviceSecretHashWithoutGrantHash(r, offlineGrant, idToken, deviceSecret) ==
  IF ~MatchDPoPJKT(offlineGrant.DeviceSecretDPoPJKT, r.dpop)
    THEN ErrInvalidDPoPKeyBinding
  ELSE IF ~ConstantTimeEq(idToken.ds_hash, HashToken(deviceSecret))
    THEN NewError("invalid_grant",
           "the hash of device_secret (actor_token) does not match ds_hash in id token (subject_token)")
  ELSE IF idToken.ds_hash = 0
    THEN NewError("invalid_grant", "expected ds_hash to be a string")
  ELSE NoError

\* All checks are always made; the error of the last failing one is returned.
verifyIDTokenDeviceSecretHash(r, offlineGrant, idToken, deviceSecret) ==
  LET deviceSecretHash == HashToken(deviceSecret)
      e1 == IF idToken.ds_hash = 0
              THEN NewError("invalid_grant", "expected ds_hash to be a string")
            ELSE NoError
      e2 == IF ~ConstantTimeEq(idToken.ds_hash, deviceSecretHash)
              THEN NewError("invalid_grant",
                     "the hash of device_secret (actor_token) does not match ds_hash in id token (subject_token)")
            ELSE e1
      e3 == IF ~ConstantTimeEq(offlineGrant.DeviceSecretHash, deviceSecretHash)
              THEN NewError("invalid_grant",
                     "the device_secret (actor_token) does not bind to the session")
            ELSE e2
  IN IF ~MatchDPoPJKT(offlineGrant.DeviceSecretDPoPJKT, r.dpop)
       THEN ErrInvalidDPoPKeyBinding
     ELSE e3

\* PreAuthenticatedURLTokenService.IssuePreAuthenticatedURLToken; the token
\* is returned in access_token.
IssuePreAuthenticatedURLToken(st, r, client, authz, offlineGrant, scopes) ==
  IF Faulty(r, "IssuePreAuthenticatedURLToken")
    THEN Fail(Called(st, "IssuePreAuthenticatedURLToken"),
              InternalError("IssuePreAuthenticatedURLToken"))
  ELSE Ok([Called(st, "IssuePreAuthenticatedURLToken") EXCEPT
             !.resp.access_token =
               {[ClientID |-> client.ClientID, Scopes |-> scopes,
                 AuthorizationID |-> authz.ID, UserID |-> offlineGrant.UserID,
                 SessionID |-> offlineGrant.ID,
                 SessionKind |-> PreAuthenticatedURLTokenTokenType,
                 RefreshTokenHash |-> 0]},
             !.resp.issued_token_type = PreAuthenticatedURLTokenTokenType])

\* An exchange that grants whatever scopes are requested.
preAuthenticatedURLExchangeAnyScope(st0, r, client, offlineGrant, idToken) ==
  LET scopes == IF r.scope # {} THEN r.scope
                ELSE GetScopes(offlineGrant, offlineGrant.InitialClientID)
      issueIDToken(rot) ==
        IF Failed(rot) THEN rot
        ELSE IssueIDToken(rot.st, r, client, EncodeSID("offline_grant", rot.val.ID),
                          rot.val.DeviceSecretHash)
      rotate(tok) ==
        IF Failed(tok) THEN tok
        ELSE issueIDToken(rotateDeviceSecret(tok.st, r, offlineGrant))
      issueToken(authz) ==
        IF Failed(authz) THEN authz
        ELSE rotate(IssuePreAuthenticatedURLToken(authz.st, r, client, authz.val,
                                                  offlineGrant, scopes))
      exchange(st, verr) ==
        IF verr.kind # "none" THEN Fail(st, verr)
        ELSE issueToken(CheckAndGrant(st, r, client.ClientID, offlineGrant.UserID, scopes))
      verified(verr) ==
        exchange([st0 EXCEPT !.bindings =
                    Append(@, [grant |-> offlineGrant, idToken |-> idToken,
                               deviceSecret |-> r.actor_token, dpop |-> r.dpop,
                               err |-> verr])],
                 verr)
  IN verified(verifyIDTokenDeviceSecretHash(r, offlineGrant, idToken, r.actor_token))

\* The exchange once the session of the subject token is known (753-836).
preAuthenticatedURLExchange(st0, r, client, offlineGrant, idToken) ==
  LET isAllowed == HasAllScopes(offlineGrant, offlineGrant.InitialClientID,
                                {PreAuthenticatedURLScope})
      requestedScopes == r.scope
      scopes == IF requestedScopes # {} THEN requestedScopes
                ELSE GetScopes(offlineGrant, offlineGrant.InitialClientID)
      \* 822-833
      issueIDToken(rot) ==
        IF Failed(rot) THEN rot
        ELSE IssueIDToken(rot.st, r, client, EncodeSID("offline_grant", rot.val.ID),
                          rot.val.DeviceSecretHash)
      \* 816-820
      rotate(tok) ==
        IF Failed(tok) THEN tok
        ELSE issueIDToken(rotateDeviceSecret(tok.st, r, offlineGrant))
      \* 800-814
      issueToken(authz) ==
        IF Failed(authz) THEN authz
        ELSE rotate(IssuePreAuthenticatedURLToken(authz.st, r, client, authz.val,
                                                  offlineGrant, scopes))
      \* 773-788
      exchange(st, verr) ==
        IF verr.kind # "none" THEN Fail(st, verr)
        ELSE IF requestedScopes # {}
                /\ ~HasAllScopes(offlineGrant, offlineGrant.InitialClientID, requestedScopes)
          THEN Fail(st, NewError("invalid_scope", "requesting extra scopes is not allowed"))
        ELSE IF requestedScopes # {} /\ Faulty(r, "ValidateScopes")
          THEN Fail(Called(st, "ValidateScopes"),
                    NewError("invalid_scope", "scope is not allowed"))
        ELSE issueToken(CheckAndGrant(st, r, client.ClientID, offlineGrant.UserID, scopes))
      \* 768-771: the verification, recorded for inspection with what it was
      \* given and the error it returned.
      verified(verr) ==
        exchange([st0 EXCEPT !.bindings =
                    Append(@, [grant |-> offlineGrant, idToken |-> idToken,
                               deviceSecret |-> r.actor_token, dpop |-> r.dpop,
                               err |-> verr])],
                 verr)
  IN IF ~isAllowed
       THEN Fail(st0, NewError("insufficient_scope",
                               "pre-authenticated url is not allowed for this session"))
     ELSE verified(verifyIDTokenDeviceSecretHash(r, offlineGrant, idToken, r.actor_token))

handlePreAuthenticatedURLToken(st, r, client) ==
  IF r.actor_token_type # DeviceSecretTokenType
    THEN Fail(st, NewError("invalid_request", "expected actor_token_type = device-secret"))
  ELSE IF r.subject_token_type # IDTokenTokenType
    THEN Fail(st, NewError("invalid_request", "expected subject_token_type = id_token"))
  ELSE IF r.actor_token = 0
    THEN Fail(st, NewError("invalid_request", "actor_token is required"))
  ELSE IF r.subject_token = {}
    THEN Fail(st, NewError("invalid_request", "subject_token is required"))
  ELSE
    LET idToken == CHOOSE t \in r.subject_token : TRUE
        sid == idToken.SID
    IN IF idToken \notin st.ids   \* VerifyIDToken: signed by this issuer
         THEN Fail(st, NewError("invalid_request", "subject_token is not a valid id token"))
       ELSE IF r.audience # Iss
         THEN Fail(st, NewError("invalid_request", "expected audience to be the issuer"))
       ELSE IF sid = NoSID \/ ~DecodeSIDOK(sid)
         THEN Fail(st, NewError("invalid_grant", "sid in id token (subject_token) is invalid"))
       ELSE IF sid[1] = "idp"
         THEN IF Faulty(r, "IDPSessions.Get")
                THEN Fail(st, NewError("insufficient_scope",
                                       "pre-authenticated url is not allowed for this session"))
              ELSE Fail(st, NewError("invalid_grant", "invalid session type"))
       ELSE IF Faulty(r, "GetOfflineGrant") \/ ~HasOfflineGrant(st.og, sid[2])
         THEN Fail(Called(st, "GetOfflineGrant"),
                   NewError("insufficient_scope",
                            "pre-authenticated url is not allowed for this session"))
       ELSE preAuthenticatedURLExchange(Called(st, "GetOfflineGrant"), r, client,
                                        GetOfflineGrant(st.og, sid[2]), idToken)

handleTokenExchange(st, r, client) ==
  IF r.requested_token_type = PreAuthenticatedURLTokenTokenType
    THEN handlePreAuthenticatedURLToken(st, r, client)
  ELSE Fail(st, NewError("invalid_request", "requested_token_type not supported"))

(***************************************************************************)
(* App2app request (handleApp2AppRequest, handler_token.go 1236-1354).     *)
(***************************************************************************)
FeatureApp2AppEnabled == TRUE
CodeGrantLifetime == 1

\* parseRedirectURI: the redirect URI must be one the client registered.
RedirectURIAllowed(client, uri) == uri \in {1, 2}

\* CodeGrantService.CreateCodeGrant: a fresh code, stored by its hash.
CreateCodeGrant(st, r, authz, offlineGrant, redirectURI) ==
  IF Faulty(r, "CreateCodeGrant")
    THEN Fail(Called(st, "CreateCodeGrant"), InternalError("CreateCodeGrant"))
  ELSE
    LET code == st.tok
        g == [CodeHash |-> HashToken(code), AuthorizationID |-> authz.ID,
              RedirectURI |-> redirectURI, CodeChallenge |-> r.code_challenge,
              Scopes |-> authz.Scopes, ExpireAt |-> now + CodeGrantLifetime,
              DPoPJKT |-> 0, UserID |-> offlineGrant.UserID, AuthenticatedAt |-> now,
              AuthenticatedBySessionType |->
                IF offlineGrant.IDPSessionID # 0 THEN "idp" ELSE "",
              AuthenticatedBySessionID |-> offlineGrant.IDPSessionID,
              IDTokenHintSID |-> NoSID, SSOEnabled |-> offlineGrant.SSOEnabled,
              ShouldFireAuthenticatedEvent |-> FALSE]
    IN Ok([Called(st, "CreateCodeGrant") EXCEPT
             !.tok = @ + 1, !.cg = @ \cup {g}, !.resp.code = code])

\* From the verified challenge on (1286-1353).
app2appBindAndIssue(st, r, client, originalClient, session, key) ==
  LET g0 == session.OfflineGrant
      \* 1346-1353
      createCode(g, authz) ==
        IF Failed(authz) THEN authz
        ELSE CreateCodeGrant(authz.st, r, authz.val, g, r.redirect_uri)
      \* 1307-1344
      verifySignature(bound) ==
        LET g == bound.val
            st1 == Called(bound.st, "jwk.ParseKey")
            st2 == Called(st1, "ParseToken")
        IN IF Failed(bound) THEN bound
           ELSE IF ParseKeyFails(g.App2AppDeviceKeyJWKJSON)
             THEN Fail(st1, InternalError("jwk.ParseKey"))
           ELSE IF ~ParseTokenOK(r.jwt, ParseKey(g.App2AppDeviceKeyJWKJSON))
             THEN Fail(st2, NewError("invalid_request", "invalid app2app jwt signature"))
           ELSE createCode(g, CheckAndGrant(st2, r, client.ClientID, g.UserID,
                                            session.Scopes))
  IN verifySignature(
       IF g0.App2AppDeviceKeyJWKJSON = 0
         THEN IF ~originalClient.App2appInsecureDeviceKeyBindingEnabled
                THEN Fail(st, NewError("invalid_grant",
                                       "app2app is not allowed in current session"))
              ELSE app2appUpdateDeviceKeyIfNeeded(st, r, originalClient, g0, key)
       ELSE Ret(NoError, st, g0))

\* A handler that consumes the challenge before it validates the refresh
\* token.
handleApp2AppRequestConsumesChallengeFirst(st, r, client) ==
  LET \* 1286-1353
      bind(verified, parsed) ==
        IF Failed(parsed) THEN parsed
        ELSE IF ~ClientResolves(parsed.val.ClientID)
          THEN Fail(parsed.st,
                    NewError("server_error", "cannot find original client for app2app"))
        ELSE app2appBindAndIssue(parsed.st, r, client, ClientConfig(parsed.val.ClientID),
                                 parsed.val, verified.val)
      parse(verified) ==
        IF Failed(verified) THEN verified
        ELSE bind(verified, ParseRefreshToken(verified.st, r))
  IN IF ~client.App2appEnabled
       THEN Fail(st, NewError("unauthorized_client",
                              "this client may not use app2app authentication"))
     ELSE IF ~FeatureApp2AppEnabled
       THEN Fail(st, NewError("invalid_request", "app2app disabled"))
     ELSE IF ~RedirectURIAllowed(client, r.redirect_uri)
       THEN Fail(st, NewError("invalid_request", "redirect URI is not allowed"))
     ELSE parse(app2appVerifyAndConsumeChallenge(st, r, r.jwt))

handleApp2AppRequest(st, r, client) ==
  LET \* 1286-1353
      bind(parsed, verified) ==
        IF Failed(verified) THEN verified
        ELSE app2appBindAndIssue(verified.st, r, client, ClientConfig(parsed.val.ClientID),
                                 parsed.val, verified.val)
      \* 1262-1284
      verify(parsed) ==
        IF Failed(parsed) THEN parsed
        ELSE IF ~ClientResolves(parsed.val.ClientID)
          THEN Fail(parsed.st,
                    NewError("server_error", "cannot find original client for app2app"))
        ELSE bind(parsed, app2appVerifyAndConsumeChallenge(parsed.st, r, r.jwt))
  IN IF ~client.App2appEnabled
       THEN Fail(st, NewError("unauthorized_client",
                              "this client may not use app2app authentication"))
     ELSE IF ~FeatureApp2AppEnabled
       THEN Fail(st, NewError("invalid_request", "app2app disabled"))
     ELSE IF ~RedirectURIAllowed(client, r.redirect_uri)
       THEN Fail(st, NewError("invalid_request", "redirect URI is not allowed"))
     ELSE verify(ParseRefreshToken(st, r))

(***************************************************************************)
(* Anonymous and biometric requests (handler_token.go 854-1234).  The JWT  *)
(* of such a request is modelled by what the interaction graph makes of    *)
(* it: the action it names, the outcome of the dry run, and the user and   *)
(* the identity the completed graph yields.                                *)
(***************************************************************************)
BiometricDisabled == FALSE

DefaultScopes == {"openid", OfflineAccess, FullAccessScope}

\* Graphs.Run: the interaction is committed.
GraphsRun(st, r) ==
  IF Faulty(r, "Graphs.Run")
    THEN Fail(Called(st, "Graphs.Run"), NewError("invalid_request", "Graphs.Run"))
  ELSE Ok(Called(st, "Graphs.Run"))

\* The tokens of a grant just issued (955-976, 1196-1234), with the
\* user.authenticated event of the biometric login.
issueTokensForNewGrant(issued, r, client, scopes, authz, fireEvent) ==
  LET event(idt) ==
        IF Failed(idt) \/ ~fireEvent THEN idt
        ELSE IF Faulty(r, "DispatchEventOnCommit")
          THEN Fail(Called(idt.st, "DispatchEventOnCommit"),
                    InternalError("DispatchEventOnCommit"))
        ELSE Ok(Called(idt.st, "DispatchEventOnCommit"))
      idToken(acc) ==
        IF Failed(acc) THEN acc
        ELSE event(IF "openid" \in scopes
                     THEN IssueIDToken(acc.st, r, client,
                                       EncodeSID("offline_grant", issued.val.grant.ID),
                                       issued.val.grant.DeviceSecretHash)
                   ELSE acc)
  IN IF Failed(issued) THEN issued
     ELSE idToken(IssueAccessGrant(issued.st, r, client, scopes, authz.ID, authz.UserID,
                                   issued.val.grant.ID, "offline_grant",
                                   issued.val.tokenHash))

IssueOfflineGrantOptions(r, scopes, authz, identityID) ==
  [Scopes |-> scopes, AuthorizationID |-> authz.ID, UserID |-> authz.UserID,
   AuthenticatedAt |-> now, IDPSessionID |-> 0, IdentityID |-> identityID,
   SSOEnabled |-> FALSE, App2AppDeviceKey |-> 0,
   IssueDeviceSecret |-> shouldIssueDeviceSecret(scopes), DPoPJKT |-> r.dpop]

\* An anonymous login that commits the graph whatever the dry run said.
handleAnonymousRequestWithoutDryRun(st, r, client) ==
  LET scopes == DefaultScopes
      st1 == Called(st, "Graphs.DryRun")
      issue(authz) ==
        IF Failed(authz) THEN authz
        ELSE issueTokensForNewGrant(
               issueOfflineGrant(authz.st, r, client, authz.val.UserID, TRUE,
                                 IssueOfflineGrantOptions(r, scopes, authz.val, 0), TRUE),
               r, client, scopes, authz.val, FALSE)
      grant(run) ==
        IF Failed(run) THEN run
        ELSE issue(CheckAndGrant(run.st, r, client.ClientID, r.jwt.UserID, scopes))
  IN IF ~client.FullAccess
       THEN Fail(st, NewError("unauthorized_client", "this client may not use anonymous user"))
     ELSE IF ~r.deviceInfoOK
       THEN Fail(st, NewError("invalid_request", "invalid device info"))
     ELSE IF r.jwt.form # "ok"
       THEN Fail(st1, NewError("invalid_grant", "InvalidCredentials"))
     ELSE grant(GraphsRun(st1, r))

handleAnonymousRequest(st, r, client) ==
  LET scopes == DefaultScopes
      st1 == Called(st, "Graphs.DryRun")
      \* 920-976
      issue(authz) ==
        IF Failed(authz) THEN authz
        ELSE issueTokensForNewGrant(
               issueOfflineGrant(authz.st, r, client, authz.val.UserID, TRUE,
                                 IssueOfflineGrantOptions(r, scopes, authz.val, 0), TRUE),
               r, client, scopes, authz.val, FALSE)
      \* 910-918
      grant(run) ==
        IF Failed(run) THEN run
        ELSE issue(CheckAndGrant(run.st, r, client.ClientID, r.jwt.UserID, scopes))
  IN IF ~client.FullAccess
       THEN Fail(st, NewError("unauthorized_client", "this client may not use anonymous user"))
     ELSE IF ~r.deviceInfoOK
       THEN Fail(st, NewError("invalid_request", "invalid device info"))
     ELSE IF r.jwt.form # "ok"
       THEN Fail(st1, NewError("invalid_grant", "InvalidCredentials"))
     ELSE IF r.jwt.outcome = "Disallowed"
       THEN Fail(st1, NewError("unauthorized_client", "AnonymousUserDisallowed"))
     ELSE IF r.jwt.outcome = "InvalidCredentials"
       THEN Fail(st1, NewError("invalid_grant", "InvalidCredentials"))
     ELSE IF r.jwt.outcome # "ok"
       THEN Fail(st1, InternalError("interaction not completed for anonymous users"))
     ELSE grant(GraphsRun(st1, r))

handleBiometricSetup(st, r, client) ==
  LET st1 == Called(st, "Graphs.DryRun")
      done(run) == IF Failed(run) THEN run ELSE Ok([run.st EXCEPT !.resp = EmptyResponse])
  IN IF GetSession(st, r) = {}
       THEN Fail(st, NewError("invalid_grant", "biometric setup requires authenticated user"))
     ELSE IF r.jwt.outcome = "Disallowed"
       THEN Fail(st1, NewError("unauthorized_client", "BiometricDisallowed"))
     ELSE IF r.jwt.outcome = "AnonymousUserAddIdentity"
       THEN Fail(st1, NewError("unauthorized_client", "AnonymousUserAddIdentity"))
     ELSE IF r.jwt.outcome = "InvalidCredentials"
       THEN Fail(st1, NewError("invalid_grant", "InvalidCredentials"))
     ELSE IF r.jwt.outcome # "ok"
       THEN Fail(st1, InternalError("interaction no completed for biometric setup"))
     ELSE done(GraphsRun(st1, r))

\* The loop of 1156-1169 that deletes the user's grants of one identity.
deleteOfflineGrantsOfIdentity(st, r, userID, identityID) ==
  LET st1 == Called(st, "ListOfflineGrants")
      same == {g \in st1.og : g.UserID = userID /\ g.IdentityID = identityID}
  IN IF Faulty(r, "ListOfflineGrants")
       THEN Fail(st1, InternalError("ListOfflineGrants"))
     ELSE IF same = {} THEN Ok(st1)
     ELSE IF Faulty(r, "DeleteOfflineGrant")
       THEN Fail(Called(st1, "DeleteOfflineGrant"), InternalError("DeleteOfflineGrant"))
     ELSE Ok([Called(st1, "DeleteOfflineGrant") EXCEPT !.og = @ \ same])

\* A biometric login that keeps the grants of the identity.
handleBiometricAuthenticateKeepsGrants(st, r, client) ==
  LET scopes == IF r.scope # {} THEN r.scope ELSE DefaultScopes
      issue(authz) ==
        IF Failed(authz) THEN authz
        ELSE issueTokensForNewGrant(
               issueOfflineGrant(authz.st, r, client, authz.val.UserID, TRUE,
                                 IssueOfflineGrantOptions(r, scopes, authz.val,
                                                          r.jwt.IdentityID),
                                 TRUE),
               r, client, scopes, authz.val, TRUE)
      grant(run) ==
        IF Failed(run) THEN run
        ELSE IF ~ContainsAllScopes(scopes, {OfflineAccess, FullAccessScope})
          THEN Fail(run.st, NewError("invalid_scope",
                                     "offline_access and full-access must be requested"))
        ELSE issue(CheckAndGrant(run.st, r, client.ClientID, r.jwt.UserID, scopes))
  IN IF r.jwt.outcome # "ok"
       THEN Fail(Called(st, "Graphs.DryRun"), NewError("invalid_grant", "InvalidCredentials"))
     ELSE grant(GraphsRun(Called(st, "Graphs.DryRun"), r))

handleBiometricAuthenticate(st, r, client) ==
  LET requestedScopes == r.scope
      scopes == IF requestedScopes # {} THEN requestedScopes ELSE DefaultScopes
      st1 == Called(st, "Graphs.DryRun")
      \* 1171-1234
      issue(authz, evicted) ==
        IF Failed(evicted) THEN evicted
        ELSE issueTokensForNewGrant(
               issueOfflineGrant(evicted.st, r, client, authz.UserID, TRUE,
                                 IssueOfflineGrantOptions(r, scopes, authz,
                                                          r.jwt.IdentityID),
                                 TRUE),
               r, client, scopes, authz, TRUE)
      \* 1147-1169
      evict(authz) ==
        IF Failed(authz) THEN authz
        ELSE issue(authz.val,
                   deleteOfflineGrantsOfIdentity(authz.st, r, authz.val.UserID,
                                                 r.jwt.IdentityID))
      \* 1126-1145
      grant(run) ==
        IF Failed(run) THEN run
        ELSE IF requestedScopes # {} /\ Faulty(r, "ValidateScopes")
          THEN Fail(Called(run.st, "ValidateScopes"),
                    NewError("invalid_scope", "scope is not allowed"))
        ELSE IF ~ContainsAllScopes(scopes, {OfflineAccess, FullAccessScope})
          THEN Fail(run.st, NewError("invalid_scope",
                                     "offline_access and full-access must be requested"))
        ELSE evict(CheckAndGrant(run.st, r, client.ClientID, r.jwt.UserID, scopes))
  IN IF ~r.deviceInfoOK
       THEN Fail(st, NewError("invalid_request", "invalid device info"))
     ELSE IF r.jwt.outcome = "Disallowed"
       THEN Fail(st1, NewError("unauthorized_client", "BiometricDisallowed"))
     ELSE IF r.jwt.outcome = "InvalidCredentials"
       THEN Fail(st1, NewError("invalid_grant", "InvalidCredentials"))
     ELSE IF r.jwt.outcome # "ok"
       THEN Fail(st1, InternalError("interaction no completed for biometric authenticate"))
     ELSE grant(GraphsRun(st1, r))

handleBiometricRequest(st, r, client) ==
  IF BiometricDisabled
    THEN Fail(st, NewError("invalid_request", "biometric authentication is disabled"))
  ELSE IF ~client.FullAccess
    THEN Fail(st, NewError("unauthorized_client",
                           "this client may not use biometric authentication"))
  ELSE IF r.jwt.form # "ok"
    THEN Fail(st, NewError("invalid_request", "invalid jwt"))
  ELSE IF r.jwt.action = "setup" THEN handleBiometricSetup(st, r, client)
  ELSE IF r.jwt.action = "authenticate" THEN handleBiometricAuthenticate(st, r, client)
  ELSE Fail(st, NewError("invalid_request", "invalid action"))

(***************************************************************************)
(* Settings-action code exchange (IssueTokensForSettingsActionCode,        *)
(* handler_token.go 1790-1874).                                            *)
(***************************************************************************)
HasSettingsActionGrant(sg, codeHash) == \E g \in sg : g.CodeHash = codeHash
GetSettingsActionGrant(sg, codeHash) == CHOOSE g \in sg : g.CodeHash = codeHash

\* The checks with the redirect URI compared before the expiry.
settingsActionChecksRedirectURIFirst(st, r, client, settingsActionGrant) ==
  LET secret(pkce) ==
        IF Failed(pkce) THEN pkce
        ELSE verifyClientSecret(pkce.st, client, r.client_secret)
  IN IF settingsActionGrant.RedirectURI # r.redirect_uri
       THEN Fail(st, NewError("invalid_request", "invalid redirect URI"))
     ELSE IF now > settingsActionGrant.ExpireAt
       THEN Fail(st, errInvalidAuthzCode)
     ELSE secret(verifyPKCE(st, client, settingsActionGrant.CodeChallenge,
                            r.code_verifier))

\* The checks made on the stored grant (1825-1866), in the order of the code.
settingsActionChecks(st, r, client, settingsActionGrant) ==
  LET codeChallenge == settingsActionGrant.CodeChallenge
      needVerify == IsPublic(client) \/ codeChallenge # 0 \/ r.code_verifier # 0
      needClientSecret == IsConfidential(client)
      pass == \E clientSecret \in client.Secrets :
                ConstantTimeEq(r.client_secret, clientSecret)
      \* 1845-1866
      secret(st1) ==
        IF ~needClientSecret THEN Ok(st1)
        ELSE IF r.client_secret = 0
          THEN Fail(st1, NewError("invalid_request", "invalid client secret"))
        ELSE IF ~client.HasCredentials
          THEN Fail(Called(st1, "OAuthClientCredentials.Lookup"),
                    NewError("invalid_request",
                             "client secret is not supported for the client"))
        ELSE IF ~pass
          THEN Fail(Called(st1, "OAuthClientCredentials.Lookup"),
                    NewError("invalid_request", "invalid client secret"))
        ELSE Ok(Called(st1, "OAuthClientCredentials.Lookup"))
  IN IF now > settingsActionGrant.ExpireAt
       THEN Fail(st, errInvalidAuthzCode)
     ELSE IF settingsActionGrant.RedirectURI # r.redirect_uri
       THEN Fail(st, NewError("invalid_request", "invalid redirect URI"))
     ELSE IF ~needVerify THEN secret(st)
     ELSE IF NewS256VerifierFails(r.code_verifier)
       THEN Fail(Called(st, "NewS256Verifier"), errInvalidAuthzCode)
     ELSE IF ~S256Verify(r.code_verifier, codeChallenge)
       THEN Fail(Called(st, "NewS256Verifier"), errInvalidAuthzCode)
     ELSE secret(Called(st, "NewS256Verifier"))

\* SettingsActionGrantStore.DeleteSettingsActionGrant; a failure is logged
\* and swallowed.
DeleteSettingsActionGrant(st, r, settingsActionGrant) ==
  IF Faulty(r, "DeleteSettingsActionGrant")
    THEN Called(st, "DeleteSettingsActionGrant")
  ELSE [Called(st, "DeleteSettingsActionGrant") EXCEPT !.sg = @ \ {settingsActionGrant}]

\* An exchange that deletes the grant before it validates the request.
IssueTokensForSettingsActionCodeDeletesFirst(st, r, client) ==
  LET codeHash == HashToken(r.code)
      st1 == Called(st, "GetSettingsActionGrant")
      done(checks) ==
        IF Failed(checks) THEN checks
        ELSE Ok([checks.st EXCEPT !.resp = EmptyResponse])
      check(grant) ==
        done(settingsActionChecks(
               DeleteSettingsActionGrant(
                 Called(st1, "ResolveForAuthorizationEndpoint"), r, grant),
               r, client, grant))
  IN IF ~HasSettingsActionGrant(st1.sg, codeHash)
       THEN Fail(st1, errInvalidAuthzCode)
     ELSE check(GetSettingsActionGrant(st1.sg, codeHash))

IssueTokensForSettingsActionCode(st, r, client) ==
  LET codeHash == HashToken(r.code)
      st1 == Called(st, "GetSettingsActionGrant")
      st2 == Called(st1, "ResolveForAuthorizationEndpoint")
      \* 1868-1873
      delete(grant, checks) ==
        IF Failed(checks) THEN checks
        ELSE Ok([DeleteSettingsActionGrant(checks.st, r, grant)
                   EXCEPT !.resp = EmptyResponse])
      \* 1815-1866
      check(grant) ==
        IF Faulty(r, "ResolveForAuthorizationEndpoint")
          THEN Fail(st2, InternalError("ResolveForAuthorizationEndpoint"))
        ELSE delete(grant, settingsActionChecks(st2, r, client, grant))
  IN IF Faulty(r, "GetSettingsActionGrant")
       THEN Fail(st1, InternalError("GetSettingsActionGrant"))
     ELSE IF ~HasSettingsActionGrant(st1.sg, codeHash)
       THEN Fail(st1, errInvalidAuthzCode)
     ELSE check(GetSettingsActionGrant(st1.sg, codeHash))

(***************************************************************************)
(* Handle and doHandle (handler_token.go 230-304).                         *)
(***************************************************************************)
\* The switch on the grant type (280-303).  The default branch panics; the
\* panic is recorded as a call.
dispatch(st, r, client) ==
  CASE r.grant_type = AuthorizationCodeGrantType ->
         IssueTokensForAuthorizationCode(st, r, client)
    [] r.grant_type = RefreshTokenGrantType -> handleRefreshToken(st, r, client)
    [] r.grant_type = TokenExchangeGrantType -> handleTokenExchange(st, r, client)
    [] r.grant_type = AnonymousRequestGrantType -> handleAnonymousRequest(st, r, client)
    [] r.grant_type = BiometricRequestGrantType -> handleBiometricRequest(st, r, client)
    [] r.grant_type = App2AppRequestGrantType -> handleApp2AppRequest(st, r, client)
    [] r.grant_type = IDTokenGrantType -> handleIDToken(st, r, client)
    [] r.grant_type = SettingsActionGrantType ->
         IssueTokensForSettingsActionCode(st, r, client)
    [] OTHER -> Fail(Called(st, "panic"), InternalError("oauth: unexpected grant type"))

\* A dispatcher that tests the allow-list before it validates the request.
doHandleAllowListFirst(st, r, client) ==
  IF r.grant_type \notin (client.GrantTypes \cup whitelistedGrantTypes)
    THEN Fail(st, NewError("unauthorized_client", "grant type is not allowed for this client"))
  ELSE IF validateRequest(r, client) # NoError THEN Fail(st, validateRequest(r, client))
  ELSE dispatch(st, r, client)

\* A dispatcher that does not validate the request.
doHandleWithoutValidation(st, r, client) ==
  IF r.grant_type \notin (client.GrantTypes \cup whitelistedGrantTypes)
    THEN Fail(st, NewError("unauthorized_client", "grant type is not allowed for this client"))
  ELSE dispatch(st, r, client)

doHandle(st, r, client) ==
  LET verr == validateRequest(r, client)
  IN IF verr.kind # "none" THEN Fail(st, verr)
     ELSE IF r.grant_type \notin (client.GrantTypes \cup whitelistedGrantTypes)
       THEN Fail(st, NewError("unauthorized_client", "grant type is not allowed for this client"))
     ELSE dispatch(st, r, client)

\* The result written to the caller: a protocol error as it is, any other
\* failure as server_error, and the token response only on success.
\* A Handle that passes the text of every error on to the caller.
HandleResultInWithDetail(st0, r) ==
  LET write(res) ==
        CASE res.err.kind = "none" ->
               [st |-> res.st, error |-> "", error_description |-> "",
                internal |-> FALSE, resp |-> res.st.resp]
          [] OTHER ->
               [st |-> res.st,
                error |-> IF res.err.kind = "oauth" THEN res.err.code ELSE "server_error",
                error_description |-> res.err.desc,
                internal |-> res.err.kind = "internal", resp |-> EmptyResponse]
  IN IF ~ClientResolves(r.client_id)
       THEN [st |-> st0, error |-> "invalid_client", error_description |-> "invalid client ID",
             internal |-> FALSE, resp |-> EmptyResponse]
     ELSE write(doHandle(st0, r, ClientConfig(r.client_id)))

HandleResultIn(st0, r) ==
  LET write(res) ==
        CASE res.err.kind = "oauth" ->
               [st |-> res.st, error |-> res.err.code, error_description |-> res.err.desc,
                internal |-> FALSE, resp |-> EmptyResponse]
          [] res.err.kind = "internal" ->
               [st |-> res.st, error |-> "server_error",
                error_description |-> "internal server error",
                internal |-> TRUE, resp |-> EmptyResponse]
          [] OTHER ->
               [st |-> res.st, error |-> "", error_description |-> "",
                internal |-> FALSE, resp |-> res.st.resp]
  IN IF ~ClientResolves(r.client_id)
       THEN [st |-> st0, error |-> "invalid_client", error_description |-> "invalid client ID",
             internal |-> FALSE, resp |-> EmptyResponse]
     ELSE write(doHandle(st0, r, ClientConfig(r.client_id)))

HandleResult(r) == HandleResultIn(Begin, r)

(***************************************************************************)
(* Actions.                                                                *)
(***************************************************************************)
Idle == last = << >>

\* History kept for the claims: the codes whose exchange returned tokens,
\* per offline grant the device-secret hashes it held before a rotation, the
\* refresh tokens that code exchanges returned, with the client they went
\* to, the refresh-token hashes of the grants that were revoked, and the
\* actor and subject tokens of the token exchanges that succeeded.
NextHist(r, out) ==
  [exchanged |-> hist.exchanged \cup
                  IF r.grant_type = AuthorizationCodeGrantType /\ out.error = ""
                    THEN {r.code} ELSE {},
   consumed |-> hist.consumed \cup
                  IF r.grant_type = AuthorizationCodeGrantType /\ out.error = ""
                     /\ ~Faulty(r, "DeleteCodeGrant")
                    THEN {r.code} ELSE {},
   retired |-> hist.retired \cup
                  {<<g.ID, g.DeviceSecretHash>> :
                     g \in {x \in offlineGrants :
                              /\ x.DeviceSecretHash # 0
                              /\ \E y \in out.st.og :
                                   y.ID = x.ID /\ y.DeviceSecretHash # x.DeviceSecretHash}},
   issued |-> hist.issued \cup
                IF r.grant_type = AuthorizationCodeGrantType /\ out.error = ""
                   /\ out.resp.refresh_token # 0
                  THEN {<<out.resp.refresh_token, r.client_id>>} ELSE {},
   revoked |-> hist.revoked \cup
                 {t.TokenHash :
                    t \in UNION {g.RefreshTokens :
                                   g \in {x \in offlineGrants :
                                            ~HasOfflineGrant(out.st.og, x.ID)}}},
   preAuthenticated |-> hist.preAuthenticated \cup
                          IF r.grant_type = TokenExchangeGrantType /\ out.error = ""
                            THEN {<<r.actor_token, r.subject_token>>} ELSE {}]

\* One token request, handled from start to end.
Handle(r) ==
  LET written(out) ==
        /\ codeGrants' = out.st.cg
        /\ settingsActionGrants' = out.st.sg
        /\ authorizations' = out.st.az
        /\ offlineGrants' = out.st.og
        /\ challenges' = out.st.ch
        /\ idTokens' = out.st.ids
        /\ nextToken' = out.st.tok
        /\ hist' = NextHist(r, out)
        /\ last' = << [req |-> r,
                       error |-> out.error, error_description |-> out.error_description,
                       internal |-> out.internal, resp |-> out.resp,
                       calls |-> out.st.calls, keyUpdates |-> out.st.keyUpdates,
                       rotations |-> out.st.rotations, bindings |-> out.st.bindings,
                       pre |-> [cg |-> codeGrants, sg |-> settingsActionGrants,
                                og |-> offlineGrants,
                                az |-> authorizations, ch |-> challenges,
                                ids |-> idTokens, tok |-> nextToken,
                                exchanged |-> hist.exchanged,
                                consumed |-> hist.consumed, retired |-> hist.retired,
                                issued |-> hist.issued,
                                revoked |-> hist.revoked,
                                preAuthenticated |-> hist.preAuthenticated]] >>
  IN /\ Idle
     /\ steps < MaxSteps
     /\ written(HandleResult(r))
     /\ steps' = steps + 1
     /\ UNCHANGED <<now, inflight>>

\* The response has been written; the request-scoped state is dropped.
Respond ==
  /\ ~Idle
  /\ last' = << >>
  /\ UNCHANGED <<now, codeGrants, settingsActionGrants, authorizations, offlineGrants, challenges, idTokens,
                 nextToken, steps, hist, inflight>>

\* Time passes between requests.
Tick ==
  /\ Idle
  /\ now < MaxTime
  /\ now' = now + 1
  /\ UNCHANGED <<codeGrants, settingsActionGrants, authorizations, offlineGrants, challenges, idTokens,
                 nextToken, steps, hist, last, inflight>>

(***************************************************************************)
(* Initial states.                                                         *)
(***************************************************************************)
FirstFreshToken == 10
NoHist ==
  [exchanged |-> {}, consumed |-> {}, retired |-> {}, issued |-> {}, revoked |-> {},
   preAuthenticated |-> {}]

\* A code grant as the authorization endpoint stores it for code 1.
StoredCodeGrant(codeChallenge, dpopJKT, scopes, sid) ==
  [CodeHash |-> HashToken(1), AuthorizationID |-> 1, RedirectURI |-> 1,
   CodeChallenge |-> codeChallenge, Scopes |-> scopes, ExpireAt |-> CodeGrantLifetime,
   DPoPJKT |-> dpopJKT, UserID |-> "u1", AuthenticatedAt |-> 0,
   AuthenticatedBySessionType |-> "idp", AuthenticatedBySessionID |-> 7,
   IDTokenHintSID |-> sid, SSOEnabled |-> FALSE, ShouldFireAuthenticatedEvent |-> FALSE]

\* The stores before the first request.
InitStores(cg, sg, az, og, ch, ids) ==
  /\ now = 0
  /\ codeGrants = cg
  /\ settingsActionGrants = sg
  /\ authorizations = az
  /\ offlineGrants = og
  /\ challenges = ch
  /\ idTokens = ids
  /\ nextToken = FirstFreshToken
  /\ steps = 0
  /\ hist = NoHist
  /\ last = << >>

InitAll(cg, sg, az, og, ch, ids) ==
  /\ InitStores(cg, sg, az, og, ch, ids)
  /\ inflight = << >>

InitWith(cg, az, og, ch, ids) == InitAll(cg, {}, az, og, ch, ids)

(***************************************************************************)
(* Code exchange: one stored code, redeemed by any client, with time       *)
(* passing and store failures.                                             *)
(***************************************************************************)
UserAuthorization == [ID |-> 1, ClientID |-> "spa", UserID |-> "u1",
                      Scopes |-> {"openid", OfflineAccess}]

InitCode ==
  \E dpopJKT \in {0, 1} :
    InitWith({StoredCodeGrant(S256Challenge(2), dpopJKT, {"openid", OfflineAccess}, NoSID)},
             {UserAuthorization}, {}, {}, {})

CodeRequests ==
  {[BaseRequest EXCEPT !.client_id = c, !.code = code, !.redirect_uri = uri,
                       !.code_verifier = v, !.client_secret = 1, !.dpop = jkt,
                       !.deviceInfoOK = di, !.fault = f] :
     c \in {"spa", "backend"}, code \in {1, 3}, uri \in {1, 2}, v \in {0, 2, 3},
     jkt \in {0, 1, 2}, di \in BOOLEAN,
     f \in {"none", "GetCodeGrant", "ResolveForAuthorizationEndpoint", "DeleteCodeGrant"}}

NextCode ==
  \/ \E r \in CodeRequests : Handle(r)
  \/ Respond
  \/ Tick

SpecCode == InitCode /\ [][NextCode]_vars

(***************************************************************************)
(* Reading the answer of the request just handled.                         *)
(***************************************************************************)
Answered == last # << >>

IsCodeExchange(r) == r.grant_type = AuthorizationCodeGrantType

\* The request gets as far as the handler of its grant type.
Dispatched(r) ==
  /\ ClientResolves(r.client_id)
  /\ validateRequest(r, ClientConfig(r.client_id)) = NoError
  /\ r.grant_type \in (ClientConfig(r.client_id).GrantTypes \cup whitelistedGrantTypes)

\* The code exchange gets as far as an answer of the code-grant store.
ReachesCodeLookup(r) ==
  Dispatched(r) /\ r.deviceInfoOK /\ ~Faulty(r, "GetCodeGrant")

\* The request presents what the stored grant g asks for.
PresentsPKCE(r, g) ==
  needVerifyPKCE(ClientConfig(r.client_id), g.CodeChallenge, r.code_verifier)
    => ~NewS256VerifierFails(r.code_verifier) /\ S256Verify(r.code_verifier, g.CodeChallenge)

PresentsClientSecret(r) ==
  IsConfidential(ClientConfig(r.client_id))
    => r.client_secret \in ClientConfig(r.client_id).Secrets

OtherwiseValid(r, g) ==
  /\ ReachesCodeLookup(r)
  /\ r.fault = "none"
  /\ MatchDPoPJKT(g.DPoPJKT, r.dpop)
  /\ g.RedirectURI = r.redirect_uri
  /\ PresentsPKCE(r, g)
  /\ PresentsClientSecret(r)

\* The stores as the request found them.
PreState(a) ==
  [cg |-> a.pre.cg, sg |-> a.pre.sg, az |-> a.pre.az, og |-> a.pre.og, ch |-> a.pre.ch,
   ids |-> a.pre.ids, tok |-> a.pre.tok, resp |-> EmptyResponse, calls |-> << >>,
   keyUpdates |-> << >>, rotations |-> << >>, bindings |-> << >>]

(***************************************************************************)
(* C1.  Single use of an authorization code.                               *)
(***************************************************************************)
\* C1 (as amended): an exchange that returns tokens, and whose
\* DeleteCodeGrant call does not fail, leaves no grant stored for its code;
\* every later exchange presenting that code returns no tokens and fails,
\* with invalid_grant whenever it passes request validation, its device info
\* parses and the code-grant store answers.
C1_CodeIsSingleUse ==
  Answered =>
    LET a == last[1]
        r == a.req
    IN IsCodeExchange(r) =>
         /\ (a.error = "" /\ ~Faulty(r, "DeleteCodeGrant"))
              => ~HasCodeGrant(codeGrants, HashToken(r.code))
         /\ r.code \in a.pre.consumed
              => /\ ~IssuesTokens(a.resp)
                 /\ a.error # ""
                 /\ ReachesCodeLookup(r) => a.error = "invalid_grant"

\* A redeemed code is presented again by a request that is valid in
\* everything else, and is refused with invalid_grant.
C1_Witness ==
  /\ Answered
  /\ IsCodeExchange(last[1].req)
  /\ last[1].req.code \in last[1].pre.consumed
  /\ ReachesCodeLookup(last[1].req)
  /\ last[1].req.fault = "none"
  /\ last[1].req.redirect_uri = 1
  /\ last[1].req.code_verifier = 2
  /\ last[1].error = "invalid_grant"
  /\ ~IssuesTokens(last[1].resp)

\* C1 as the specification states it: a valid first exchange of a stored,
\* unexpired grant succeeds and deletes the grant, and any later exchange
\* presenting the same code fails with invalid_grant and issues no tokens.
C1_AsStated ==
  Answered =>
    LET a == last[1]
        r == a.req
        codeHash == HashToken(r.code)
    IN (IsCodeExchange(r) /\ r.fault = "none") =>
         /\ (/\ HasCodeGrant(a.pre.cg, codeHash)
             /\ now <= GetCodeGrant(a.pre.cg, codeHash).ExpireAt
             /\ OtherwiseValid(r, GetCodeGrant(a.pre.cg, codeHash)))
              => a.error = "" /\ ~HasCodeGrant(codeGrants, codeHash)
         /\ r.code \in a.pre.exchanged
              => a.error = "invalid_grant" /\ ~IssuesTokens(a.resp)

(***************************************************************************)
(* C2.  An expired code.                                                   *)
(***************************************************************************)
\* C2: when the stored grant of the presented code has ExpireAt strictly
\* before the clock, the exchange issues no tokens and creates no offline
\* grant, and a request that is otherwise valid (device info, DPoP proof,
\* redirect URI, PKCE verifier and client secret as the grant asks, stores
\* answering) fails with invalid_grant.
C2_ExpiredCodeIsRejected ==
  Answered =>
    LET a == last[1]
        r == a.req
        codeHash == HashToken(r.code)
    IN (/\ IsCodeExchange(r)
        /\ HasCodeGrant(a.pre.cg, codeHash)
        /\ now > GetCodeGrant(a.pre.cg, codeHash).ExpireAt)
         => /\ ~IssuesTokens(a.resp)
            /\ a.error # ""
            /\ offlineGrants = a.pre.og
            /\ OtherwiseValid(r, GetCodeGrant(a.pre.cg, codeHash))
                 => a.error = "invalid_grant"

\* An expired grant met by a request that is valid in everything else.
C2_Witness ==
  /\ Answered
  /\ IsCodeExchange(last[1].req)
  /\ HasCodeGrant(last[1].pre.cg, HashToken(last[1].req.code))
  /\ now > GetCodeGrant(last[1].pre.cg, HashToken(last[1].req.code)).ExpireAt
  /\ OtherwiseValid(last[1].req,
                    GetCodeGrant(last[1].pre.cg, HashToken(last[1].req.code)))
  /\ last[1].error = "invalid_grant"
  /\ offlineGrants = {}

(***************************************************************************)
(* C3.  Existence of a code does not show.                                 *)
(***************************************************************************)
CodeValues == {1, 3}

\* C3: an exchange whose code has a stored but expired grant is answered
\* with the same error and description as the same request presenting a
\* code that has no stored grant, whatever its DPoP proof, redirect URI and
\* verifier are.
C3_ExpiredAnswersLikeNotFound ==
  Answered =>
    LET a == last[1]
        r == a.req
        codeHash == HashToken(r.code)
    IN (/\ IsCodeExchange(r)
        /\ r.fault = "none"
        /\ HasCodeGrant(a.pre.cg, codeHash)
        /\ now > GetCodeGrant(a.pre.cg, codeHash).ExpireAt)
         => \A other \in CodeValues :
              ~HasCodeGrant(a.pre.cg, HashToken(other))
                => LET b == HandleResultIn(PreState(a), [r EXCEPT !.code = other])
                   IN /\ a.error = b.error
                      /\ a.error_description = b.error_description

(***************************************************************************)
(* PKCE and client secret: one stored code with any challenge, redeemed    *)
(* with any verifier and secret by a public and two confidential clients.  *)
(***************************************************************************)
InitPKCE ==
  \E codeChallenge \in {0, S256Challenge(1), S256Challenge(2), S256Challenge(3)} :
    InitWith({StoredCodeGrant(codeChallenge, 0, {"openid", OfflineAccess}, NoSID)},
             {UserAuthorization}, {}, {}, {})

PKCERequests ==
  {[BaseRequest EXCEPT !.client_id = c, !.code = 1, !.redirect_uri = uri,
                       !.code_verifier = v, !.client_secret = secret] :
     c \in {"spa", "backend", "thirdparty"}, uri \in {1, 2},
     v \in {0, 1, 2, 3}, secret \in {0, 1, 2, 3}}

NextPKCE ==
  \/ \E r \in PKCERequests : Handle(r)
  \/ Respond
  \/ Tick

SpecPKCE == InitPKCE /\ [][NextPKCE]_vars

\* The handler stopped with an error right after this collaborator call.
StoppedAfter(a, call) ==
  a.error # "" /\ a.calls # << >> /\ a.calls[Len(a.calls)] = call

Performed(a, call) == \E i \in 1..Len(a.calls) : a.calls[i] = call

\* The exchange got to the PKCE step (544): the grant is stored, unexpired
\* and bound to the redirect URI and DPoP key presented.
ReachesPKCE(a) ==
  LET r == a.req
      codeHash == HashToken(r.code)
  IN /\ IsCodeExchange(r)
     /\ ReachesCodeLookup(r)
     /\ r.fault = "none"
     /\ HasCodeGrant(a.pre.cg, codeHash)
     /\ MatchDPoPJKT(GetCodeGrant(a.pre.cg, codeHash).DPoPJKT, r.dpop)
     /\ now <= GetCodeGrant(a.pre.cg, codeHash).ExpireAt
     /\ GetCodeGrant(a.pre.cg, codeHash).RedirectURI = r.redirect_uri

(***************************************************************************)
(* C4.  The result of the PKCE check.                                      *)
(***************************************************************************)
\* C4 (as amended): whenever PKCE verification is performed, the exchange
\* passes the PKCE step iff NewS256Verifier accepts the code_verifier and
\* BASE64URL(SHA256(code_verifier)) equals the stored code_challenge; in
\* every other case it fails with invalid_grant, "invalid authorization
\* code", and issues no tokens.
C4_PKCEResult ==
  Answered =>
    LET a == last[1]
        r == a.req
        g == GetCodeGrant(a.pre.cg, HashToken(r.code))
        passes == ~StoppedAfter(a, "NewS256Verifier")
    IN (IsCodeExchange(r) /\ Performed(a, "NewS256Verifier"))
         => /\ passes <=> (/\ ~NewS256VerifierFails(r.code_verifier)
                           /\ S256Challenge(r.code_verifier) = g.CodeChallenge)
            /\ ~passes => /\ a.error = "invalid_grant"
                          /\ a.error_description = "invalid authorization code"
                          /\ ~IssuesTokens(a.resp)

\* PKCE is performed and passed with the verifier of the stored challenge.
C4_Witness ==
  /\ Answered
  /\ IsCodeExchange(last[1].req)
  /\ Performed(last[1], "NewS256Verifier")
  /\ ~StoppedAfter(last[1], "NewS256Verifier")
  /\ S256Challenge(last[1].req.code_verifier)
       = GetCodeGrant(last[1].pre.cg, HashToken(last[1].req.code)).CodeChallenge
  /\ last[1].error = ""

\* C4 as the specification states it: whenever PKCE verification is
\* performed, the exchange passes the PKCE step iff
\* BASE64URL(SHA256(code_verifier)) equals the stored code_challenge, and
\* any inequality fails with invalid_grant.
C4_AsStated ==
  Answered =>
    LET a == last[1]
        r == a.req
        g == GetCodeGrant(a.pre.cg, HashToken(r.code))
        passes == ~StoppedAfter(a, "NewS256Verifier")
    IN (IsCodeExchange(r) /\ Performed(a, "NewS256Verifier"))
         => /\ passes <=> S256Challenge(r.code_verifier) = g.CodeChallenge
            /\ S256Challenge(r.code_verifier) # g.CodeChallenge
                 => a.error = "invalid_grant"

(***************************************************************************)
(* C5.  When PKCE is enforced.                                             *)
(***************************************************************************)
\* C5: an exchange that gets to the PKCE step performs PKCE verification
\* exactly when the client is public, or the stored code_challenge is not
\* empty, or the request supplies a code_verifier; when it is performed the
\* exchange completes only with the matching verifier, and when all three
\* are false the step is skipped.
C5_PKCEEnforcedExactlyWhenNeeded ==
  Answered =>
    LET a == last[1]
        r == a.req
        g == GetCodeGrant(a.pre.cg, HashToken(r.code))
        needed == \/ ~ClientConfig(r.client_id).Confidential
                  \/ g.CodeChallenge # 0
                  \/ r.code_verifier # 0
    IN /\ ReachesPKCE(a) => (Performed(a, "NewS256Verifier") <=> needed)
       /\ (ReachesPKCE(a) /\ needed /\ a.error = "")
            => S256Challenge(r.code_verifier) = g.CodeChallenge
       /\ (IsCodeExchange(r) /\ ~ReachesPKCE(a)) => ~Performed(a, "NewS256Verifier")

\* A confidential client whose grant carries a code_challenge presents its
\* valid secret without the matching verifier and is refused.
C5_Witness ==
  /\ Answered
  /\ ReachesPKCE(last[1])
  /\ ClientConfig(last[1].req.client_id).Confidential
  /\ GetCodeGrant(last[1].pre.cg, HashToken(last[1].req.code)).CodeChallenge # 0
  /\ last[1].req.code_verifier = 0
  /\ last[1].req.client_secret \in ClientConfig(last[1].req.client_id).Secrets
  /\ Performed(last[1], "NewS256Verifier")
  /\ last[1].error = "invalid_grant"

(***************************************************************************)
(* C6.  The client secret of a confidential client.                        *)
(***************************************************************************)
\* The exchange got to the client-secret step (556).
ReachesSecret(a) ==
  /\ ReachesPKCE(a)
  /\ PresentsPKCE(a.req, GetCodeGrant(a.pre.cg, HashToken(a.req.code)))

\* C6: for a confidential client, an exchange of a stored code with an
\* empty client secret, or an exchange that gets to the secret step with a
\* secret equal to none registered for the client, fails with
\* invalid_request, issues no tokens and leaves the code grant stored; an
\* exchange that gets to the secret step passes it iff the secret equals a
\* registered one.
C6_ClientSecret ==
  Answered =>
    LET a == last[1]
        r == a.req
        client == ClientConfig(r.client_id)
        codeHash == HashToken(r.code)
        refused == /\ a.error = "invalid_request"
                   /\ ~IssuesTokens(a.resp)
                   /\ HasCodeGrant(codeGrants, codeHash)
    IN (/\ IsCodeExchange(r)
        /\ ClientResolves(r.client_id)
        /\ client.Confidential
        /\ HasCodeGrant(a.pre.cg, codeHash))
         => /\ r.client_secret = 0 => refused
            /\ (ReachesSecret(a) /\ r.client_secret \notin client.Secrets) => refused
            /\ ReachesSecret(a)
                 => (Performed(a, "Authorizations.GetByID")
                       <=> r.client_secret \in client.Secrets)

\* A confidential client gets to the secret step with a secret that is
\* not registered and is refused, the grant staying stored.
C6_Witness ==
  /\ Answered
  /\ ReachesSecret(last[1])
  /\ last[1].req.client_id = "backend"
  /\ last[1].req.client_secret # 0
  /\ last[1].req.client_secret \notin ClientConfig("backend").Secrets
  /\ last[1].error = "invalid_request"
  /\ HasCodeGrant(codeGrants, HashToken(last[1].req.code))

(***************************************************************************)
(* Device secret: one offline grant with a device secret, used by the      *)
(* ID-token grant, the pre-authenticated-URL exchange and the refresh-     *)
(* token grant.                                                            *)
(***************************************************************************)
\* The offline grant 1 of user u1, created for client spa with one refresh
\* token (4) and the device secret 5.
StoredOfflineGrant(scopes, deviceSecretHash, keyJSON) ==
  [ID |-> 1, InitialClientID |-> "spa", UserID |-> "u1", IdentityID |-> 0,
   IDPSessionID |-> 7, SSOEnabled |-> FALSE,
   DeviceSecretHash |-> deviceSecretHash, DeviceSecretDPoPJKT |-> 0,
   App2AppDeviceKeyJWKJSON |-> keyJSON,
   AuthenticatedAt |-> 0, ExpireAt |-> OfflineGrantLifetime, LastAccess |-> 0,
   RefreshTokens |-> {[TokenHash |-> HashToken(4), ClientID |-> "spa",
                       Scopes |-> scopes, AuthorizationID |-> 1]}]

StoredIDToken(deviceSecretHash) ==
  [ClientID |-> "spa", SID |-> EncodeSID("offline_grant", 1), ds_hash |-> deviceSecretHash]

InitSecret ==
  \E scopes \in {{"openid", OfflineAccess, DeviceSSOScope, PreAuthenticatedURLScope},
                 {"openid", OfflineAccess}} :
    InitWith({}, {[UserAuthorization EXCEPT !.Scopes = scopes]},
             {StoredOfflineGrant(scopes, HashToken(5), 0)}, {},
             {StoredIDToken(HashToken(5))})

\* The device secrets a caller may present: none, the stored one, a wrong
\* one, and the first ones a rotation issues.
DeviceSecrets == {0, 5, 6, FirstFreshToken, FirstFreshToken + 1}

IDTokenRequests ==
  {[BaseRequest EXCEPT !.grant_type = IDTokenGrantType, !.client_id = "spa",
                       !.session = [kind |-> "offline_grant", id |-> 1,
                                    tokenHash |-> HashToken(4)],
                       !.device_secret = d, !.fault = f] :
     d \in DeviceSecrets,
     f \in {"none", "ComputeOfflineGrantExpiry", "UpdateOfflineGrantDeviceSecretHash",
            "IssueIDToken"}}

PreAuthenticatedURLRequests ==
  {[BaseRequest EXCEPT !.grant_type = TokenExchangeGrantType, !.client_id = "spa",
                       !.requested_token_type = PreAuthenticatedURLTokenTokenType,
                       !.actor_token_type = DeviceSecretTokenType,
                       !.subject_token_type = IDTokenTokenType,
                       !.audience = Iss,
                       !.actor_token = d,
                       !.subject_token = {StoredIDToken(HashToken(h))},
                       !.dpop = jkt] :
     d \in DeviceSecrets \ {0}, h \in DeviceSecrets \ {0}, jkt \in {0, 1}}

RefreshRequests ==
  {[BaseRequest EXCEPT !.grant_type = RefreshTokenGrantType, !.client_id = c,
                       !.refresh_token = 4, !.device_secret = d] :
     c \in {"spa", "native"}, d \in {0, 5, 6}}

SecretRequests == IDTokenRequests \cup PreAuthenticatedURLRequests \cup RefreshRequests

NextSecret ==
  \/ \E r \in SecretRequests : Handle(r)
  \/ Respond
  \/ Tick

SpecSecret == InitSecret /\ [][NextSecret]_vars

(***************************************************************************)
(* C7.  Rotation of the device secret.                                     *)
(***************************************************************************)
\* The offline grant the subject token of a token exchange names.
SubjectGrantIDs(r) ==
  {t.SID[2] : t \in {x \in r.subject_token : DecodeSIDOK(x.SID)}}

\* C7: when rotateDeviceSecretIfDeviceSecretIsPresentAndValid is given a
\* grant whose authorized scopes include device_sso and a device secret
\* whose hash is the grant's DeviceSecretHash, and returns no error, the
\* grant's DeviceSecretHash has been replaced by a different one; a
\* successful pre-authenticated-URL exchange replaces it likewise.  The
\* replaced secret never matches the grant again: no stored grant carries a
\* hash it held before, a later conditional rotation given the old secret
\* rotates nothing, and a later pre-authenticated-URL exchange presenting
\* it is refused, issues no tokens and leaves the grant as it is.
C7_RotationRetiresSecret ==
  /\ \A g \in offlineGrants : <<g.ID, g.DeviceSecretHash>> \notin hist.retired
  /\ Answered =>
       LET a == last[1]
           r == a.req
       IN /\ \A i \in 1..Len(a.rotations) :
               LET c == a.rotations[i]
               IN /\ (/\ DeviceSSOScope \in c.scopes
                      /\ c.presented # 0
                      /\ HashToken(c.presented) = c.grant.DeviceSecretHash
                      /\ c.err.kind = "none")
                       => /\ c.rotated
                          /\ \A g \in c.out :
                               g.DeviceSecretHash # c.grant.DeviceSecretHash
                          /\ \A g \in c.ogAfter :
                               g.ID = c.grant.ID
                                 => /\ g.DeviceSecretHash # c.grant.DeviceSecretHash
                                    /\ g.DeviceSecretHash # HashToken(c.presented)
                  /\ <<c.grant.ID, HashToken(c.presented)>> \in a.pre.retired
                       => ~c.rotated /\ c.ogAfter = c.ogBefore
          /\ (r.grant_type = TokenExchangeGrantType /\ a.error = "")
               => \A g \in a.pre.og :
                    g.ID \in SubjectGrantIDs(r)
                      => /\ <<g.ID, g.DeviceSecretHash>> \in hist.retired
                         /\ \A h \in offlineGrants :
                              h.ID = g.ID => h.DeviceSecretHash # g.DeviceSecretHash
          /\ (/\ r.grant_type = TokenExchangeGrantType
              /\ \E id \in SubjectGrantIDs(r) :
                   <<id, HashToken(r.actor_token)>> \in a.pre.retired)
               => /\ a.error # ""
                  /\ ~IssuesTokens(a.resp)
                  /\ offlineGrants = a.pre.og

\* After a rotation, the ID-token grant is given the replaced secret and
\* rotates nothing.
C7_Witness ==
  /\ Answered
  /\ last[1].req.grant_type = IDTokenGrantType
  /\ Len(last[1].rotations) = 1
  /\ last[1].rotations[1].presented # 0
  /\ DeviceSSOScope \in last[1].rotations[1].scopes
  /\ <<last[1].rotations[1].grant.ID, HashToken(last[1].rotations[1].presented)>>
       \in last[1].pre.retired
  /\ ~last[1].rotations[1].rotated
  /\ last[1].error = ""

(***************************************************************************)
(* App2app device key: one offline grant, with or without a bound key,     *)
(* reached by reauthenticating code exchanges and by app2app requests of   *)
(* clients with and without the insecure-binding flag.                     *)
(***************************************************************************)
KeyScopes == {"openid", OfflineAccess}

\* Grant 1 with a second refresh token (6) held by client native.
StoredApp2AppGrant(keyJSON) ==
  [StoredOfflineGrant(KeyScopes, 0, keyJSON) EXCEPT
     !.RefreshTokens = @ \cup {[TokenHash |-> HashToken(6), ClientID |-> "native",
                                Scopes |-> KeyScopes, AuthorizationID |-> 2]}]

\* Codes 1 and 2, both issued for a reauthentication of grant 1.
ReauthCodeGrants ==
  {[StoredCodeGrant(S256Challenge(2), 0, KeyScopes, EncodeSID("offline_grant", 1))
      EXCEPT !.CodeHash = HashToken(code), !.ExpireAt = MaxTime] : code \in {1, 2}}

\* Code 3, issued to client legacy, which has no app2app.
LegacyCodeGrant ==
  [StoredCodeGrant(S256Challenge(2), 0, {"openid"}, EncodeSID("idp", 7))
     EXCEPT !.CodeHash = HashToken(3), !.AuthorizationID = 3, !.ExpireAt = MaxTime]

\* The challenges 1 and 2 were created for app2app requests, the challenge 3
\* for another purpose.
StoredChallenges ==
  {[Token |-> c, Purpose |-> PurposeApp2AppRequest] : c \in {1, 2}}
    \cup {[Token |-> 3, Purpose |-> "biometric-request"]}

\* Client native may hold an authorization wider than the session of grant 1.
InitKey ==
  \E cfg \in {<<0, {}>>, <<MarshalKey(1), {}>>, <<MarshalKey(1), {"email"}>>} :
    InitWith(ReauthCodeGrants \cup {LegacyCodeGrant},
             {[UserAuthorization EXCEPT !.Scopes = KeyScopes],
              [UserAuthorization EXCEPT !.ID = 2, !.ClientID = "native",
                                        !.Scopes = KeyScopes \cup cfg[2]],
              [UserAuthorization EXCEPT !.ID = 3, !.ClientID = "legacy",
                                        !.Scopes = {"openid"}]},
             {StoredApp2AppGrant(cfg[1])},
             StoredChallenges,
             {})

\* JWTs carrying the device key k, signed by it, over the challenge c.
DeviceKeyJWTs ==
  {[form |-> "ok", challenge |-> c, key |-> k, signer |-> k] :
     c \in {1, 2}, k \in {1, 2}}
  \cup {[form |-> "ok", challenge |-> 3, key |-> 1, signer |-> 1]}

KeyCodeRequests ==
  {[BaseRequest EXCEPT !.client_id = c, !.code = code, !.redirect_uri = 1,
                       !.code_verifier = 2, !.app2app_device_key_jwt = jwt,
                       !.fault = f] :
     c \in {"spa", "native"}, code \in {1, 2},
     jwt \in DeviceKeyJWTs \cup {NoJWT},
     f \in {"none", "UpdateOfflineGrantApp2AppDeviceKey"}}
  \cup
  {[BaseRequest EXCEPT !.client_id = "legacy", !.code = 3, !.redirect_uri = 1,
                       !.code_verifier = 2, !.app2app_device_key_jwt = jwt] :
     jwt \in {[form |-> "ok", challenge |-> 1, key |-> 1, signer |-> 1]}}

App2AppRequests ==
  {[BaseRequest EXCEPT !.grant_type = App2AppRequestGrantType, !.client_id = cr[1],
                       !.refresh_token = cr[2], !.jwt = jwt, !.redirect_uri = 1,
                       !.code_challenge = S256Challenge(2),
                       !.code_challenge_method = "S256"] :
     cr \in {<<"spa", 4>>, <<"native", 4>>, <<"native", 6>>}, jwt \in DeviceKeyJWTs}

KeyRequests == KeyCodeRequests \cup App2AppRequests

NextKey ==
  \/ \E r \in KeyRequests : Handle(r)
  \/ Respond
  \/ Tick

SpecKey == InitKey /\ [][NextKey]_vars

(***************************************************************************)
(* C8.  A different key for a grant that has one.                          *)
(***************************************************************************)
\* The call is given a key other than the one bound to the grant.
GivesDifferentKey(c) ==
  /\ c.key # 0
  /\ c.grant.App2AppDeviceKeyJWKJSON # 0
  /\ MarshalKey(c.key) # c.grant.App2AppDeviceKeyJWKJSON

\* C8: every call of app2appUpdateDeviceKeyIfNeeded that is given a key
\* different from the one bound to the grant fails with invalid_grant,
\* whether the client's insecure-device-key-binding flag is enabled or not,
\* the request is answered with invalid_grant, and the bound key stays.
C8_DifferentKeyIsInvalidGrant ==
  Answered =>
    \A i \in 1..Len(last[1].keyUpdates) :
      LET c == last[1].keyUpdates[i]
      IN GivesDifferentKey(c)
           => /\ c.err.kind = "oauth"
              /\ c.err.code = "invalid_grant"
              /\ last[1].error = "invalid_grant"
              /\ \A h \in offlineGrants :
                   h.ID = c.grant.ID
                     => h.App2AppDeviceKeyJWKJSON = c.grant.App2AppDeviceKeyJWKJSON

(***************************************************************************)
(* C9.  The same key again.                                                *)
(***************************************************************************)
\* C9: every call of app2appUpdateDeviceKeyIfNeeded that is given the key
\* whose JSON is the one bound to the grant returns the grant it was given
\* without error and calls no collaborator, so the store is as before (key
\* and expiry unchanged), whatever the client's insecure-binding flag is.
C9_SameKeyIsNoOp ==
  Answered =>
    \A i \in 1..Len(last[1].keyUpdates) :
      LET c == last[1].keyUpdates[i]
      IN (c.key # 0 /\ MarshalKey(c.key) = c.grant.App2AppDeviceKeyJWKJSON)
           => /\ c.err.kind = "none"
              /\ c.out = {c.grant}
              /\ c.calls = 0
              /\ c.ogAfter = c.ogBefore

\* A client without the insecure-binding flag submits the bound key again
\* after the clock has moved, and the exchange goes through.
C9_Witness ==
  /\ Answered
  /\ now > 0
  /\ last[1].error = ""
  /\ \E i \in 1..Len(last[1].keyUpdates) :
       /\ last[1].keyUpdates[i].key # 0
       /\ MarshalKey(last[1].keyUpdates[i].key)
            = last[1].keyUpdates[i].grant.App2AppDeviceKeyJWKJSON
       /\ ~ClientConfig(last[1].keyUpdates[i].client).App2appInsecureDeviceKeyBindingEnabled
       /\ last[1].keyUpdates[i].ogAfter = last[1].keyUpdates[i].ogBefore

(***************************************************************************)
(* C10.  The device key of a grant is bound once.                          *)
(***************************************************************************)
\* C10: over every token request, and over every call of
\* app2appUpdateDeviceKeyIfNeeded within it, an offline grant that has a
\* device key keeps that key, and a grant without one gets one only through a call of
\* app2appUpdateDeviceKeyIfNeeded for a client whose insecure-device-key-
\* binding flag is enabled, the key being the one that call was given.
C10_DeviceKeyBoundOnce ==
  Answered =>
    /\ \A i \in 1..Len(last[1].keyUpdates) :
         \A g \in last[1].keyUpdates[i].ogBefore :
           \A h \in last[1].keyUpdates[i].ogAfter :
             h.ID = g.ID
               => /\ g.App2AppDeviceKeyJWKJSON # 0
                       => h.App2AppDeviceKeyJWKJSON = g.App2AppDeviceKeyJWKJSON
                  /\ (g.App2AppDeviceKeyJWKJSON = 0 /\ h.App2AppDeviceKeyJWKJSON # 0)
                       => /\ last[1].keyUpdates[i].grant.ID = g.ID
                          /\ last[1].keyUpdates[i].err.kind = "none"
                          /\ ClientConfig(last[1].keyUpdates[i].client).App2appInsecureDeviceKeyBindingEnabled
                          /\ h.App2AppDeviceKeyJWKJSON = MarshalKey(last[1].keyUpdates[i].key)
    /\ \A g \in last[1].pre.og : \A h \in offlineGrants :
      h.ID = g.ID
        => /\ g.App2AppDeviceKeyJWKJSON # 0
                => h.App2AppDeviceKeyJWKJSON = g.App2AppDeviceKeyJWKJSON
           /\ (g.App2AppDeviceKeyJWKJSON = 0 /\ h.App2AppDeviceKeyJWKJSON # 0)
                => \E i \in 1..Len(last[1].keyUpdates) :
                     LET c == last[1].keyUpdates[i]
                     IN /\ c.grant.ID = g.ID
                        /\ c.err.kind = "none"
                        /\ ClientConfig(c.client).App2appInsecureDeviceKeyBindingEnabled
                        /\ h.App2AppDeviceKeyJWKJSON = MarshalKey(c.key)

\* A grant whose key was bound by an earlier request of this run is given
\* another key by a client with the flag enabled, and keeps its key.
C10_Witness ==
  /\ Answered
  /\ steps > 1
  /\ \E i \in 1..Len(last[1].keyUpdates) :
       /\ GivesDifferentKey(last[1].keyUpdates[i])
       /\ ClientConfig(last[1].keyUpdates[i].client).App2appInsecureDeviceKeyBindingEnabled
       /\ last[1].keyUpdates[i].grant.LastAccess = 0
       /\ last[1].keyUpdates[i].grant.App2AppDeviceKeyJWKJSON = MarshalKey(2)
       /\ \A h \in offlineGrants :
            h.ID = last[1].keyUpdates[i].grant.ID
              => h.App2AppDeviceKeyJWKJSON = MarshalKey(2)

(***************************************************************************)
(* Sessions: two stored codes, redeemed by a client that allows one        *)
(* session per user, by one that allows many and by a public and a         *)
(* confidential client without the refresh_token grant type, then refresh  *)
(* requests with the stored and the issued refresh tokens.                 *)
(***************************************************************************)
SessionScopes == {"openid", OfflineAccess}

\* Codes 1 and 2, both for authorization 1, alive until MaxTime.
SessionCodeGrants ==
  {[StoredCodeGrant(S256Challenge(2), 0, SessionScopes, NoSID)
      EXCEPT !.CodeHash = HashToken(code), !.ExpireAt = MaxTime] : code \in {1, 2}}

InitSession ==
  \E og \in {{}, {StoredOfflineGrant(SessionScopes, 0, 0)}} :
    InitWith(SessionCodeGrants,
             {UserAuthorization, [UserAuthorization EXCEPT !.ID = 2, !.ClientID = "native"]},
             og, {}, {})

\* The refresh tokens in play: the stored one and the first two issued.
SessionRefreshTokens == {4, FirstFreshToken + 1, FirstFreshToken + 4}

SessionCodeRequests ==
  {[BaseRequest EXCEPT !.client_id = c, !.code = code, !.redirect_uri = 1,
                       !.code_verifier = 2, !.client_secret = 1, !.fault = f] :
     c \in {"spa", "native", "legacy", "service"}, code \in {1, 2},
     f \in {"none", "ListClientOfflineGrants", "RevokeWithoutEvent"}}

SessionRefreshRequests ==
  {[BaseRequest EXCEPT !.grant_type = RefreshTokenGrantType, !.client_id = c,
                       !.refresh_token = rt, !.fault = f] :
     c \in {"spa", "native"}, rt \in SessionRefreshTokens,
     f \in {"none", "ParseRefreshToken", "IssueIDToken"}}

SessionRequests == SessionCodeRequests \cup SessionRefreshRequests

NextSession ==
  \/ \E r \in SessionRequests : Handle(r)
  \/ Respond
  \/ Tick

SpecSession == InitSession /\ [][NextSession]_vars

(***************************************************************************)
(* C11.  One session per (client, user).                                   *)
(***************************************************************************)
\* The request issued a new offline grant.
IssuedOfflineGrant(a) == a.error = "" /\ Performed(a, "IssueOfflineGrant")

\* First position of a call in the order of the calls, 0 when absent.
CallIndex(a, call) ==
  IF Performed(a, call)
    THEN CHOOSE i \in 1..Len(a.calls) :
           a.calls[i] = call /\ \A j \in 1..(i - 1) : a.calls[j] # call
  ELSE 0

\* The grant of a confidential client's exchange that issues no refresh
\* token (1628-1641), issued with revokeExistingGrants = false.
IssuedWithoutRefreshToken(a) ==
  /\ IssuedOfflineGrant(a)
  /\ IsConfidential(ClientConfig(a.req.client_id))
  /\ a.resp.refresh_token = 0

\* The statement as it was made: every code exchange that issues an offline
\* grant for a client with MaxConcurrentSession = 1 leaves the new grant
\* as the only one of the (client, user) pair.
C11_AsStated ==
  Answered =>
    LET a == last[1]
        r == a.req
        client == ClientConfig(r.client_id)
    IN (IsCodeExchange(r) /\ IssuedOfflineGrant(a) /\ client.MaxConcurrentSession = 1)
         => /\ \A g \in ClientOfflineGrants(a.pre.og, r.client_id, "u1") :
                 ~HasOfflineGrant(offlineGrants, g.ID)
            /\ Cardinality(ClientOfflineGrants(offlineGrants, r.client_id, "u1")) = 1

\* C11: when a code exchange issues an offline grant together with its
\* refresh token for a client with MaxConcurrentSession = 1, every grant
\* the (client, user) pair had before is gone from the store, revoked
\* through RevokeWithoutEvent before the new grant is issued, and the new
\* grant is the pair's only one; a confidential client's exchange that
\* issues no refresh token revokes nothing; a later refresh_token request
\* presenting a refresh token of a revoked grant is answered invalid_grant,
\* returns no tokens and changes no grant.
C11_SecondGrantRevokesFirst ==
  Answered =>
    LET a == last[1]
        r == a.req
        client == ClientConfig(r.client_id)
        had == ClientOfflineGrants(a.pre.og, r.client_id, "u1")
    IN /\ (/\ IsCodeExchange(r)
           /\ IssuedOfflineGrant(a)
           /\ ~IssuedWithoutRefreshToken(a)
           /\ client.MaxConcurrentSession = 1)
            => /\ \A g \in had : ~HasOfflineGrant(offlineGrants, g.ID)
               /\ Cardinality(ClientOfflineGrants(offlineGrants, r.client_id, "u1")) = 1
               /\ had # {}
                    => /\ Performed(a, "RevokeWithoutEvent")
                       /\ CallIndex(a, "RevokeWithoutEvent") < CallIndex(a, "IssueOfflineGrant")
       /\ (IsCodeExchange(r) /\ IssuedWithoutRefreshToken(a))
            => /\ ~Performed(a, "RevokeWithoutEvent")
               /\ \A g \in a.pre.og : HasOfflineGrant(offlineGrants, g.ID)
       /\ (/\ r.grant_type = RefreshTokenGrantType
           /\ Dispatched(r)
           /\ HashToken(r.refresh_token) \in a.pre.revoked
           /\ ~Faulty(r, "ParseRefreshToken"))
            => /\ a.error = "invalid_grant"
               /\ ~IssuesTokens(a.resp)
               /\ offlineGrants = a.pre.og

\* Grant #1 was revoked when grant #2 was issued to the same client and
\* user, and grant #1's refresh token is presented afterwards.
C11_Witness ==
  /\ Answered
  /\ last[1].req.grant_type = RefreshTokenGrantType
  /\ last[1].req.client_id = "spa"
  /\ HashToken(last[1].req.refresh_token) \in last[1].pre.revoked
  /\ ClientOfflineGrants(offlineGrants, "spa", "u1") # {}
  /\ last[1].error = "invalid_grant"

(***************************************************************************)
(* Binding: pre-authenticated-URL exchanges against one grant whose device *)
(* secret may be bound to a DPoP key, with ID tokens that carry no         *)
(* ds_hash, the hash of the grant's secret, or another hash.               *)
(***************************************************************************)
BindingScopes == {"openid", OfflineAccess, DeviceSSOScope, PreAuthenticatedURLScope}

InitBinding ==
  \E jkt \in {0, 1} :
    InitWith({}, {[UserAuthorization EXCEPT !.Scopes = BindingScopes]},
             {[StoredOfflineGrant(BindingScopes, HashToken(5), 0)
                 EXCEPT !.DeviceSecretDPoPJKT = jkt]},
             {},
             {StoredIDToken(h) : h \in {0, HashToken(5), HashToken(6)}})

\* Actor tokens: the stored secret, a wrong one, the first one a rotation issues.
BindingSecrets == {5, 6, FirstFreshToken}

\* The scopes a caller may name: none, some of the grant's, and one the
\* grant does not hold.
RequestedScopeSets == {{}, {"openid"}, {"openid", "email"}}

BindingRequests ==
  {[BaseRequest EXCEPT !.grant_type = TokenExchangeGrantType, !.client_id = "spa",
                       !.requested_token_type = PreAuthenticatedURLTokenTokenType,
                       !.actor_token_type = DeviceSecretTokenType,
                       !.subject_token_type = IDTokenTokenType,
                       !.audience = Iss,
                       !.actor_token = d,
                       !.subject_token = {StoredIDToken(h)},
                       !.dpop = jkt, !.scope = scope, !.fault = f] :
     d \in BindingSecrets, h \in {0} \cup {HashToken(x) : x \in BindingSecrets},
     jkt \in {0, 1, 2}, scope \in RequestedScopeSets,
     f \in {"none", "ValidateScopes", "GetOfflineGrant"}}

NextBinding ==
  \/ \E r \in BindingRequests : Handle(r)
  \/ Respond
  \/ Tick

SpecBinding == InitBinding /\ [][NextBinding]_vars

(***************************************************************************)
(* C12.  The binding check of the pre-authenticated-URL exchange.          *)
(***************************************************************************)
\* The four conditions, each on its own.
HasDsHash(c) == c.idToken.ds_hash # 0
DsHashIsOfActor(c) == c.idToken.ds_hash = HashToken(c.deviceSecret)
GrantHashIsOfActor(c) == c.grant.DeviceSecretHash = HashToken(c.deviceSecret)
ProofMatchesGrant(c) == MatchDPoPJKT(c.grant.DeviceSecretDPoPJKT, c.dpop)

\* C12: every call of verifyIDTokenDeviceSecretHash returns no error exactly
\* when the ID token has a ds_hash, it is the hash of the actor token, the
\* grant's DeviceSecretHash is the hash of the actor token and the DPoP
\* proof matches the grant's device-secret JKT; when any of the four fails
\* the call returns invalid_grant, whichever of the others pass, and the
\* request is answered with that error, without tokens and without a
\* change to the stores.
C12_BindingCheck ==
  Answered =>
    \A i \in 1..Len(last[1].bindings) :
      LET c == last[1].bindings[i]
          all == /\ HasDsHash(c)
                 /\ DsHashIsOfActor(c)
                 /\ GrantHashIsOfActor(c)
                 /\ ProofMatchesGrant(c)
      IN /\ (c.err = NoError) <=> all
         /\ ~all => /\ c.err.kind = "oauth"
                    /\ c.err.code = "invalid_grant"
                    /\ last[1].error = "invalid_grant"
                    /\ last[1].error_description = c.err.desc
                    /\ ~IssuesTokens(last[1].resp)
                    /\ offlineGrants = last[1].pre.og
                    /\ idTokens = last[1].pre.ids

\* The actor token is the grant's device secret and the proof matches, but
\* the ds_hash of the ID token is the hash of another secret.
C12_Witness ==
  /\ Answered
  /\ \E i \in 1..Len(last[1].bindings) :
       /\ HasDsHash(last[1].bindings[i])
       /\ ~DsHashIsOfActor(last[1].bindings[i])
       /\ GrantHashIsOfActor(last[1].bindings[i])
       /\ ProofMatchesGrant(last[1].bindings[i])
       /\ last[1].bindings[i].grant.DeviceSecretDPoPJKT # 0
  /\ last[1].error = "invalid_grant"

(***************************************************************************)
(* C13.  End to end: code exchange, then refresh.                          *)
(***************************************************************************)
\* The exchange presents a stored, unexpired code whose grant has exactly
\* the scopes openid and offline_access, with everything the grant and the
\* client ask for, and no collaborator fails.
ValidExchange(a) ==
  /\ ReachesSecret(a)
  /\ PresentsClientSecret(a.req)
  /\ a.req.app2app_device_key_jwt = NoJWT
  /\ GetCodeGrant(a.pre.cg, HashToken(a.req.code)).Scopes = {"openid", OfflineAccess}
  /\ HasAuthorization(a.pre.az,
                      GetCodeGrant(a.pre.cg, HashToken(a.req.code)).AuthorizationID)

HasAllThreeTokens(resp) ==
  resp.access_token # {} /\ resp.refresh_token # 0 /\ resp.id_token # {}

\* The refresh request presents, as the client it was issued to, a refresh
\* token that a code exchange returned, while its grant is stored and
\* unexpired, and no collaborator fails.
ValidRefreshOfIssued(a) ==
  /\ a.req.grant_type = RefreshTokenGrantType
  /\ Dispatched(a.req)
  /\ a.req.deviceInfoOK
  /\ a.req.fault = "none"
  /\ <<a.req.refresh_token, a.req.client_id>> \in a.pre.issued
  /\ \E g \in GrantOfRefreshToken(a.pre.og, HashToken(a.req.refresh_token)) :
       /\ now <= g.ExpireAt
       /\ HasAuthorization(a.pre.az,
                           ToSession(g, HashToken(a.req.refresh_token)).AuthorizationID)

DispatchScopes == {"openid", OfflineAccess}

\* A settings-action grant as the authorization endpoint stores it for
\* code 1.
StoredSettingsActionGrant(codeChallenge) ==
  [CodeHash |-> HashToken(1), RedirectURI |-> 1, CodeChallenge |-> codeChallenge,
   ExpireAt |-> CodeGrantLifetime]

InitDispatch ==
  InitAll({StoredCodeGrant(S256Challenge(2), 0, DispatchScopes, NoSID)},
          {StoredSettingsActionGrant(S256Challenge(2))},
          {UserAuthorization},
          {StoredOfflineGrant(DispatchScopes, 0, 0)},
          {[Token |-> 1, Purpose |-> PurposeApp2AppRequest]},
          {})

\* Grant types that the server does not implement.
UnknownGrantTypes == {"password", ""}

DispatchClients == {"spa", "backend", "custom", "nobody"}

DispatchCodeRequests ==
  {[BaseRequest EXCEPT !.grant_type = gt, !.client_id = c, !.code = code,
                       !.redirect_uri = 1, !.code_verifier = v,
                       !.client_secret = secret] :
     gt \in {AuthorizationCodeGrantType, SettingsActionGrantType} \cup UnknownGrantTypes,
     c \in DispatchClients, code \in {0, 1}, v \in {0, 2}, secret \in {0, 1}}

DispatchRefreshRequests ==
  {[BaseRequest EXCEPT !.grant_type = gt, !.client_id = c, !.refresh_token = rt] :
     gt \in {RefreshTokenGrantType} \cup UnknownGrantTypes,
     c \in DispatchClients, rt \in {0, 4}}

DispatchJWTRequests ==
  {[BaseRequest EXCEPT !.grant_type = gt, !.client_id = c] :
     gt \in {AnonymousRequestGrantType, BiometricRequestGrantType,
             IDTokenGrantType, TokenExchangeGrantType},
     c \in DispatchClients}

DispatchApp2AppRequests ==
  {[BaseRequest EXCEPT !.grant_type = App2AppRequestGrantType, !.client_id = c,
                       !.refresh_token = rt, !.jwt = jwt, !.redirect_uri = uri,
                       !.code_challenge = S256Challenge(2),
                       !.code_challenge_method = "S256"] :
     c \in DispatchClients \cup {""}, rt \in {0, 4}, uri \in {0, 1},
     jwt \in {NoJWT, [form |-> "ok", challenge |-> 1, key |-> 1, signer |-> 1]}}

DispatchRequests ==
  DispatchCodeRequests \cup DispatchRefreshRequests \cup DispatchJWTRequests
    \cup DispatchApp2AppRequests

NextDispatch ==
  \/ \E r \in DispatchRequests : Handle(r)
  \/ Respond
  \/ Tick

SpecDispatch == InitDispatch /\ [][NextDispatch]_vars

\* The request a read nothing and wrote nothing: no collaborator was called
\* and every store is as it was.
NoHandlerRan(a) ==
  /\ a.calls = << >>
  /\ a.keyUpdates = << >>
  /\ a.rotations = << >>
  /\ a.bindings = << >>
  /\ codeGrants = a.pre.cg
  /\ settingsActionGrants = a.pre.sg
  /\ authorizations = a.pre.az
  /\ offlineGrants = a.pre.og
  /\ challenges = a.pre.ch
  /\ idTokens = a.pre.ids
  /\ nextToken = a.pre.tok
  /\ a.resp = EmptyResponse

\* The grant type of r is neither configured for its client nor always
\* allowed.
GrantTypeNotAllowed(r) ==
  /\ ClientResolves(r.client_id)
  /\ r.grant_type \notin
       (ClientConfig(r.client_id).GrantTypes \cup whitelistedGrantTypes)

(***************************************************************************)
(* C14.  Grant types that are not allowed.                                 *)
(***************************************************************************)
\* C14 (as amended): a token request whose grant_type is not in the client's
\* configured GrantTypes unioned with the always-allowed set is rejected with
\* unsupported_grant_type by the validation of the request, which comes
\* before the allow-list test, and no per-grant handler runs.
C14_DisallowedGrantTypeIsUnsupported ==
  Answered =>
    (GrantTypeNotAllowed(last[1].req)
       => /\ last[1].error = "unsupported_grant_type"
          /\ NoHandlerRan(last[1]))

\* A well-formed code request of a known client with the grant type
\* "password" has been rejected.
C14_Witness ==
  /\ Answered
  /\ GrantTypeNotAllowed(last[1].req)
  /\ last[1].req.grant_type = "password"
  /\ last[1].req.code = 1
  /\ last[1].req.code_verifier = 2
  /\ last[1].error = "unsupported_grant_type"

\* C14 as stated: such a request is rejected with unauthorized_client, and
\* no per-grant handler runs.
C14_AsStated ==
  Answered =>
    (GrantTypeNotAllowed(last[1].req)
       => /\ last[1].error = "unauthorized_client"
          /\ NoHandlerRan(last[1]))

(***************************************************************************)
(* C15.  Validation of the request's shape comes before every effect.      *)
(***************************************************************************)
\* A field that the grant type of r requires is missing.
MissingRequiredField(r, client) ==
  \/ /\ r.grant_type \in {AuthorizationCodeGrantType, SettingsActionGrantType}
     /\ \/ r.code = 0
        \/ IsPublic(client) /\ r.code_verifier = 0
        \/ IsConfidential(client) /\ r.client_secret = 0
  \/ r.grant_type = RefreshTokenGrantType /\ r.refresh_token = 0
  \/ /\ r.grant_type \in {AnonymousRequestGrantType, BiometricRequestGrantType}
     /\ r.jwt.form = "none"
  \/ /\ r.grant_type = App2AppRequestGrantType
     /\ \/ r.jwt.form = "none"
        \/ r.refresh_token = 0
        \/ r.client_id = ""
        \/ r.redirect_uri = 0

\* C15: a request whose client cannot be resolved yields invalid_client, and
\* a request of a resolved client that misses a field required for its grant
\* type yields invalid_request; in both cases no store or collaborator has
\* been read or written.
C15_ValidationPrecedesEffects ==
  Answered =>
    /\ ~ClientResolves(last[1].req.client_id)
         => last[1].error = "invalid_client" /\ NoHandlerRan(last[1])
    /\ (/\ ClientResolves(last[1].req.client_id)
        /\ MissingRequiredField(last[1].req, ClientConfig(last[1].req.client_id)))
         => last[1].error = "invalid_request" /\ NoHandlerRan(last[1])

\* A code exchange for the stored code, by a public client without a
\* verifier, has been rejected while the code is still live.
C15_Witness ==
  /\ Answered
  /\ last[1].req.grant_type = AuthorizationCodeGrantType
  /\ last[1].req.client_id = "spa"
  /\ last[1].req.code = 1
  /\ last[1].req.code_verifier = 0
  /\ HasCodeGrant(codeGrants, HashToken(1))
  /\ last[1].error = "invalid_request"
  /\ last[1].error_description = "PKCE code verifier is required"

(***************************************************************************)
(* Settings-action code exchange: one stored settings-action grant, with   *)
(* or without a code challenge, redeemed by public and confidential        *)
(* clients, with time passing and store failures.                          *)
(***************************************************************************)
\* The code grant may be bound to the DPoP key 1, and its authorization may
\* have been removed.
InitSettings ==
  \E cfg \in {<<0, 0, {UserAuthorization}>>, <<S256Challenge(2), 0, {UserAuthorization}>>,
              <<S256Challenge(2), 1, {UserAuthorization}>>, <<S256Challenge(2), 0, {}>>} :
    InitAll({StoredCodeGrant(cfg[1], cfg[2], DispatchScopes, NoSID)},
            {StoredSettingsActionGrant(cfg[1])},
            cfg[3],
            {StoredOfflineGrant(DispatchScopes, 0, 0)},
            {}, {})

SettingsRequests ==
  {[BaseRequest EXCEPT !.grant_type = SettingsActionGrantType, !.client_id = c,
                       !.code = code, !.redirect_uri = uri, !.code_verifier = v,
                       !.client_secret = secret, !.fault = f] :
     c \in {"spa", "backend", "thirdparty"}, code \in {1, 3}, uri \in {1, 2},
     v \in {0, 2, 3}, secret \in {1, 3},
     f \in {"none", "GetSettingsActionGrant", "ResolveForAuthorizationEndpoint",
            "DeleteSettingsActionGrant"}}

\* Exchanges of the authorization code 1 stored next to the settings-action
\* grant.
SettingsCodeRequests ==
  {[BaseRequest EXCEPT !.client_id = c, !.code = 1, !.redirect_uri = uri,
                       !.code_verifier = v, !.client_secret = 1] :
     c \in {"spa", "backend"}, uri \in {1, 2}, v \in {2, 3}}
  \cup
  {[BaseRequest EXCEPT !.client_id = c, !.code = 1, !.redirect_uri = 1,
                       !.code_verifier = 2, !.client_secret = secret, !.dpop = jkt] :
     c \in {"spa", "backend"}, secret \in {1, 3}, jkt \in {1, 2}}
  \cup
  {[BaseRequest EXCEPT !.client_id = c, !.code = 1, !.redirect_uri = 1,
                       !.code_verifier = 2, !.client_secret = 1, !.fault = f] :
     c \in {"spa", "backend"},
     f \in {"DeleteCodeGrant", "IssueOfflineGrant", "IssueAccessGrant"}}

NextSettings ==
  \/ \E r \in SettingsRequests \cup SettingsCodeRequests : Handle(r)
  \/ Respond
  \/ Tick

SpecSettings == InitSettings /\ [][NextSettings]_vars

IsSettingsExchange(a) == a.req.grant_type = SettingsActionGrantType

\* The request a issued nothing: its response is empty and the stores of
\* code grants, offline grants, ID tokens and fresh tokens are as they were.
IssuedNothing(a) ==
  /\ a.resp = EmptyResponse
  /\ ~IssuesTokens(a.resp)
  /\ offlineGrants = a.pre.og
  /\ codeGrants = a.pre.cg
  /\ idTokens = a.pre.ids
  /\ nextToken = a.pre.tok
  /\ \A i \in 1..Len(a.calls) :
       a.calls[i] \in {"GetSettingsActionGrant", "ResolveForAuthorizationEndpoint",
                       "NewS256Verifier", "OAuthClientCredentials.Lookup",
                       "DeleteSettingsActionGrant"}

(***************************************************************************)
(* C16.  The settings-action exchange issues no tokens.                    *)
(***************************************************************************)
\* C16 (as amended): a settings-action code exchange never issues tokens and
\* creates no offline grant.  On success it calls DeleteSettingsActionGrant
\* and returns an empty token response; the grant is gone unless that call
\* failed, which is not reported to the caller.  On any failure it returns an
\* error and leaves the grant stored.
C16_SettingsActionIssuesNothing ==
  Answered =>
    (IsSettingsExchange(last[1])
       => /\ IssuedNothing(last[1])
          /\ last[1].error = ""
               => /\ Performed(last[1], "DeleteSettingsActionGrant")
                  /\ settingsActionGrants \subseteq last[1].pre.sg
                  /\ ~Faulty(last[1].req, "DeleteSettingsActionGrant")
                       => ~HasSettingsActionGrant(settingsActionGrants,
                                                  HashToken(last[1].req.code))
          /\ last[1].error # "" => settingsActionGrants = last[1].pre.sg)

\* A settings-action exchange has succeeded and its grant is deleted, while
\* an offline grant and an authorization for the user exist.
C16_Witness ==
  /\ Answered
  /\ IsSettingsExchange(last[1])
  /\ last[1].error = ""
  /\ last[1].resp = EmptyResponse
  /\ HasSettingsActionGrant(last[1].pre.sg, HashToken(last[1].req.code))
  /\ settingsActionGrants = {}
  /\ offlineGrants # {}

\* C16 as stated: on success the grant is deleted.
C16_AsStated ==
  Answered =>
    (IsSettingsExchange(last[1])
       => /\ IssuedNothing(last[1])
          /\ last[1].error = ""
               => ~HasSettingsActionGrant(settingsActionGrants,
                                          HashToken(last[1].req.code))
          /\ last[1].error # "" => settingsActionGrants = last[1].pre.sg)

(***************************************************************************)
(* C17.  The two code exchanges make the same checks.                      *)
(***************************************************************************)
\* The settings-action exchange a passed the validation of the request and
\* found its grant, and the code-grant store holds, for the same code, a
\* grant with the same expiry, redirect URI and code challenge that is bound
\* to no DPoP key.
SameGrantContents(a) ==
  /\ IsSettingsExchange(a)
  /\ Performed(a, "GetSettingsActionGrant")
  /\ ~Faulty(a.req, "GetSettingsActionGrant")
  /\ ~Faulty(a.req, "ResolveForAuthorizationEndpoint")
  /\ HasSettingsActionGrant(a.pre.sg, HashToken(a.req.code))
  /\ HasCodeGrant(a.pre.cg, HashToken(a.req.code))
  /\ LET sg == GetSettingsActionGrant(a.pre.sg, HashToken(a.req.code))
         cg == GetCodeGrant(a.pre.cg, HashToken(a.req.code))
     IN /\ cg.ExpireAt = sg.ExpireAt
        /\ cg.RedirectURI = sg.RedirectURI
        /\ cg.CodeChallenge = sg.CodeChallenge
        /\ cg.DPoPJKT = 0

\* The checks of the authorization-code exchange, made for the client and
\* the request fields of a on the stored code grant.
CodeChecksFor(a) ==
  codeGrantChecks(PreState(a), a.req, ClientConfig(a.req.client_id),
                  GetCodeGrant(a.pre.cg, HashToken(a.req.code)))

\* C17: for the same client, the same grant contents and the same request
\* fields, the settings-action exchange passes its expiry, redirect-URI, PKCE
\* and client-secret checks exactly when the authorization-code exchange
\* passes them; when they fail, both stop at the same check, after the same
\* collaborator calls, with the same error code and description.
C17_SameChecks ==
  Answered =>
    (SameGrantContents(last[1])
       => /\ last[1].error = "" <=> ~Failed(CodeChecksFor(last[1]))
          /\ Failed(CodeChecksFor(last[1]))
               => /\ last[1].error = CodeChecksFor(last[1]).err.code
                  /\ last[1].error_description = CodeChecksFor(last[1]).err.desc
                  /\ Tail(last[1].calls) = CodeChecksFor(last[1]).st.calls)

\* A settings-action exchange of a confidential client, for a live grant
\* with a matching redirect URI and verifier, has failed on the client
\* secret, as the code exchange does.
C17_Witness ==
  /\ Answered
  /\ SameGrantContents(last[1])
  /\ last[1].req.client_id = "backend"
  /\ last[1].req.code_verifier = 2
  /\ last[1].error = "invalid_request"
  /\ last[1].error_description = "invalid client secret"
  /\ Failed(CodeChecksFor(last[1]))
  /\ Performed(last[1], "NewS256Verifier")

(***************************************************************************)
(* C18.  Rotation of the device secret by the refresh-token grant.         *)
(***************************************************************************)
\* The request a is a refresh whose token a stored grant holds.
IsRefreshOfStored(a) ==
  /\ a.req.grant_type = RefreshTokenGrantType
  /\ a.req.deviceInfoOK
  /\ GrantOfRefreshToken(a.pre.og, HashToken(a.req.refresh_token)) # {}

\* The session of the refresh token that a presents.
RefreshedSession(a) ==
  ToSession(CHOOSE g \in GrantOfRefreshToken(a.pre.og, HashToken(a.req.refresh_token)) :
              TRUE,
            HashToken(a.req.refresh_token))

\* The request a replaced the device-secret hash of the grant g.
ChangedDeviceSecretHash(a, g) ==
  \E h \in offlineGrants : h.ID = g.ID /\ h.DeviceSecretHash # g.DeviceSecretHash

\* The request a presents a device secret that is valid for the grant g.
PresentsValidDeviceSecret(a, g) ==
  a.req.device_secret # 0 /\ HashToken(a.req.device_secret) = g.DeviceSecretHash

\* C18 (as amended): in the refresh_token grant the device secret is rotated
\* only if the session scopes include device_sso.  The device secret of the
\* request is not read: the stores and the response are the same whichever
\* secret is presented, so a successful refresh of a session with device_sso
\* that presents no device secret, or a non-matching one, rotates the secret
\* and returns the new one.  A refresh of a session without device_sso
\* leaves the grant's DeviceSecretHash unchanged and returns no
\* device_secret.
C18_RefreshRotatesOnScope ==
  Answered =>
    (IsRefreshOfStored(last[1])
       => /\ ChangedDeviceSecretHash(last[1], RefreshedSession(last[1]).OfflineGrant)
               => DeviceSSOScope \in RefreshedSession(last[1]).Scopes
          /\ DeviceSSOScope \notin RefreshedSession(last[1]).Scopes
               => /\ ~ChangedDeviceSecretHash(last[1],
                                              RefreshedSession(last[1]).OfflineGrant)
                  /\ last[1].resp.device_secret = 0
          /\ (DeviceSSOScope \in RefreshedSession(last[1]).Scopes /\ last[1].error = "")
               => /\ ChangedDeviceSecretHash(last[1],
                                             RefreshedSession(last[1]).OfflineGrant)
                  /\ last[1].resp.device_secret # 0
                  /\ \E h \in offlineGrants :
                       h.DeviceSecretHash = HashToken(last[1].resp.device_secret)
          /\ \A d \in {0, 5, 6} :
               /\ HandleResultIn(PreState(last[1]),
                                 [last[1].req EXCEPT !.device_secret = d]).st.og
                    = offlineGrants
               /\ HandleResultIn(PreState(last[1]),
                                 [last[1].req EXCEPT !.device_secret = d]).resp
                    = last[1].resp)

\* A refresh that presents no device secret has succeeded, has replaced the
\* grant's DeviceSecretHash and has returned the new device secret.
C18_Witness ==
  /\ Answered
  /\ IsRefreshOfStored(last[1])
  /\ last[1].req.device_secret = 0
  /\ last[1].error = ""
  /\ DeviceSSOScope \in RefreshedSession(last[1]).Scopes
  /\ ChangedDeviceSecretHash(last[1], RefreshedSession(last[1]).OfflineGrant)
  /\ last[1].resp.device_secret # 0

\* C18 as stated: the refresh rotates only if the caller presented a device
\* secret that is valid for the grant and the session scopes include
\* device_sso; a refresh that presents none, or a non-matching one, leaves
\* the grant's DeviceSecretHash unchanged and returns no device_secret.
C18_AsStated ==
  Answered =>
    (IsRefreshOfStored(last[1])
       => /\ ChangedDeviceSecretHash(last[1], RefreshedSession(last[1]).OfflineGrant)
               => /\ PresentsValidDeviceSecret(last[1],
                                               RefreshedSession(last[1]).OfflineGrant)
                  /\ DeviceSSOScope \in RefreshedSession(last[1]).Scopes
          /\ ~PresentsValidDeviceSecret(last[1], RefreshedSession(last[1]).OfflineGrant)
               => /\ ~ChangedDeviceSecretHash(last[1],
                                              RefreshedSession(last[1]).OfflineGrant)
                  /\ last[1].resp.device_secret = 0)

(***************************************************************************)
(* C19.  A refresh token presented by another client.                      *)
(***************************************************************************)
\* C19: when the requesting client's ID differs from the client ID of the
\* session of the presented refresh token, the request fails with a protocol
\* error, returns no tokens and leaves the stored offline grants unchanged.
C19_ClientMismatchLeavesGrant ==
  Answered =>
    ((/\ IsRefreshOfStored(last[1])
      /\ RefreshedSession(last[1]).ClientID # last[1].req.client_id)
       => /\ last[1].error # ""
          /\ ~last[1].internal
          /\ ~IssuesTokens(last[1].resp)
          /\ offlineGrants = last[1].pre.og)

(***************************************************************************)
(* C20.  Conditional rotation of the device secret.                        *)
(***************************************************************************)
\* The conditions under which the call c rotates.
MustRotate(c) ==
  /\ c.presented # 0
  /\ HashToken(c.presented) = c.grant.DeviceSecretHash
  /\ DeviceSSOScope \in c.scopes

\* C20: rotateDeviceSecretIfDeviceSecretIsPresentAndValid rotates the grant
\* only if the presented device secret is non-empty, its hash equals the
\* grant's DeviceSecretHash and the authorized scopes contain device_sso, and
\* under these conditions it does rotate unless the rotation itself fails
\* with an error; in every other case the call returns the same grant with
\* no error and writes nothing, and the ID-token grant that made the call
\* issues no device secret and calls no store.
C20_ConditionalRotation ==
  Answered =>
    \A i \in 1..Len(last[1].rotations) :
      /\ last[1].rotations[i].rotated => MustRotate(last[1].rotations[i])
      /\ (MustRotate(last[1].rotations[i]) /\ last[1].rotations[i].err = NoError)
           => /\ last[1].rotations[i].rotated
              /\ last[1].rotations[i].ogAfter # last[1].rotations[i].ogBefore
      /\ ~MustRotate(last[1].rotations[i])
           => /\ last[1].rotations[i].err = NoError
              /\ last[1].rotations[i].out = {last[1].rotations[i].grant}
              /\ last[1].rotations[i].ogAfter = last[1].rotations[i].ogBefore
              /\ offlineGrants = last[1].pre.og
              /\ last[1].resp.device_secret = 0
              /\ ~Performed(last[1], "IssueDeviceSecret")
              /\ ~Performed(last[1], "UpdateOfflineGrantDeviceSecretHash")

\* The ID-token grant has been given a wrong device secret for a grant with
\* device_sso and has succeeded without rotating.
C20_Witness ==
  /\ Answered
  /\ last[1].req.grant_type = IDTokenGrantType
  /\ Len(last[1].rotations) = 1
  /\ last[1].rotations[1].presented # 0
  /\ HashToken(last[1].rotations[1].presented) # last[1].rotations[1].grant.DeviceSecretHash
  /\ DeviceSSOScope \in last[1].rotations[1].scopes
  /\ ~last[1].rotations[1].rotated
  /\ last[1].error = ""
  /\ last[1].resp.id_token # {}

(***************************************************************************)
(* C21.  Scopes of the pre-authenticated-URL token.                        *)
(***************************************************************************)
\* The scopes the grant of the exchange a holds for its initial client.
HeldScopes(a) ==
  GetScopes(a.bindings[1].grant, a.bindings[1].grant.InitialClientID)

\* The exchange a got as far as the verification of the binding.
IsPreAuthenticatedURLExchange(a) ==
  /\ a.req.grant_type = TokenExchangeGrantType
  /\ a.req.requested_token_type = PreAuthenticatedURLTokenTokenType
  /\ Len(a.bindings) = 1

\* C21: the scopes carried by an issued pre-authenticated-URL token are a
\* subset of the scopes the offline grant holds for its initial client; an
\* exchange naming a scope the grant does not hold issues nothing and fails,
\* with invalid_scope when its binding verifies; a successful exchange
\* naming no scope receives exactly the grant's scopes, and one naming
\* scopes receives exactly those.
C21_ScopeNarrowing ==
  Answered =>
    (IsPreAuthenticatedURLExchange(last[1])
       => /\ \A t \in last[1].resp.access_token : t.Scopes \subseteq HeldScopes(last[1])
          /\ ~(last[1].req.scope \subseteq HeldScopes(last[1]))
               => /\ last[1].error # ""
                  /\ ~IssuesTokens(last[1].resp)
                  /\ offlineGrants = last[1].pre.og
                  /\ authorizations = last[1].pre.az
                  /\ ~Performed(last[1], "IssuePreAuthenticatedURLToken")
                  /\ last[1].bindings[1].err = NoError
                       => last[1].error = "invalid_scope"
          /\ last[1].error = ""
               => /\ last[1].resp.access_token # {}
                  /\ \A t \in last[1].resp.access_token :
                       t.Scopes = IF last[1].req.scope = {}
                                    THEN HeldScopes(last[1])
                                  ELSE last[1].req.scope)

\* An exchange whose binding verifies has named a scope that the grant does
\* not hold and has been refused with invalid_scope.
C21_Witness ==
  /\ Answered
  /\ IsPreAuthenticatedURLExchange(last[1])
  /\ last[1].bindings[1].err = NoError
  /\ "email" \in last[1].req.scope
  /\ "email" \notin HeldScopes(last[1])
  /\ last[1].error = "invalid_scope"
  /\ last[1].error_description = "requesting extra scopes is not allowed"

(***************************************************************************)
(* C22.  No replay of a pre-authenticated-URL exchange.                    *)
(***************************************************************************)
\* The exchange a presents the actor token and the subject token of an
\* exchange that succeeded before it.
RepeatsSuccessfulExchange(a) ==
  <<a.req.actor_token, a.req.subject_token>> \in a.pre.preAuthenticated

\* C22: every successful pre-authenticated-URL exchange replaces the
\* DeviceSecretHash of its grant by the hash of the device secret it returns
\* and returns an ID token whose ds_hash is the new hash; an exchange with
\* the actor token and the subject token of an earlier successful one
\* fails, mints no pre-authenticated-URL token and leaves the grant as it
\* is; its error is invalid_grant whenever the store returns the grant.
C22_NoReplay ==
  Answered =>
    /\ (last[1].req.grant_type = TokenExchangeGrantType
        /\ RepeatsSuccessfulExchange(last[1]))
         => /\ last[1].error # ""
            /\ ~IssuesTokens(last[1].resp)
            /\ offlineGrants = last[1].pre.og
    /\ IsPreAuthenticatedURLExchange(last[1])
       => (/\ last[1].error = ""
               => /\ last[1].resp.device_secret # 0
                  /\ HashToken(last[1].resp.device_secret)
                       # last[1].bindings[1].grant.DeviceSecretHash
                  /\ \A g \in offlineGrants :
                       g.ID = last[1].bindings[1].grant.ID
                         => g.DeviceSecretHash = HashToken(last[1].resp.device_secret)
                  /\ last[1].resp.id_token # {}
                  /\ \A t \in last[1].resp.id_token :
                       t.ds_hash = HashToken(last[1].resp.device_secret)
          /\ RepeatsSuccessfulExchange(last[1])
               => /\ last[1].error = "invalid_grant"
                  /\ ~IssuesTokens(last[1].resp)
                  /\ ~Performed(last[1], "IssuePreAuthenticatedURLToken")
                  /\ offlineGrants = last[1].pre.og)

\* A successful exchange has been repeated with the same proof and scopes
\* and has been refused.
C22_Witness ==
  /\ Answered
  /\ IsPreAuthenticatedURLExchange(last[1])
  /\ RepeatsSuccessfulExchange(last[1])
  /\ MatchDPoPJKT(last[1].bindings[1].grant.DeviceSecretDPoPJKT, last[1].req.dpop)
  /\ last[1].req.fault = "none"
  /\ last[1].req.scope = {}
  /\ last[1].error = "invalid_grant"
  /\ last[1].error_description
       = "the device_secret (actor_token) does not bind to the session"

(***************************************************************************)
(* Biometric and anonymous logins: user u1 holds offline grants of the     *)
(* biometric identities 1 and 2 on the clients spa and native.             *)
(***************************************************************************)
\* The offline grant id of user u1 on a client, authenticated with an
\* identity; its refresh token is id + 3.
StoredIdentityGrant(id, clientID, identityID) ==
  [StoredOfflineGrant(DefaultScopes, 0, 0) EXCEPT
     !.ID = id, !.InitialClientID = clientID, !.IdentityID = identityID,
     !.IDPSessionID = 0, !.ExpireAt = MaxTime + OfflineGrantLifetime,
     !.RefreshTokens = {[TokenHash |-> HashToken(id + 3), ClientID |-> clientID,
                         Scopes |-> DefaultScopes, AuthorizationID |-> 1]}]

InitBiometric ==
  \E og \in {{StoredIdentityGrant(1, "spa", 1), StoredIdentityGrant(3, "native", 2)},
             {StoredIdentityGrant(1, "spa", 1), StoredIdentityGrant(2, "native", 1),
              StoredIdentityGrant(3, "native", 2)}} :
    InitWith({}, {[UserAuthorization EXCEPT !.Scopes = DefaultScopes]}, og, {}, {})

\* The JWT of an interaction: the action it names, the outcome of the dry
\* run and the user and identity of the completed graph.
InteractionJWT(action, outcome, identityID) ==
  [form |-> "ok", challenge |-> 0, key |-> 0, signer |-> 0,
   action |-> action, outcome |-> outcome, UserID |-> "u1", IdentityID |-> identityID]

BiometricScopeSets ==
  {{}, DefaultScopes \cup {DeviceSSOScope}, {"openid", OfflineAccess}}

BiometricFaults ==
  {"Graphs.Run", "ValidateScopes", "ListOfflineGrants", "DeleteOfflineGrant",
   "IssueOfflineGrant", "IssueAccessGrant", "DispatchEventOnCommit"}

BiometricAuthenticateRequests ==
  {[BaseRequest EXCEPT !.grant_type = BiometricRequestGrantType, !.client_id = c,
                       !.jwt = InteractionJWT("authenticate", "ok", 1),
                       !.scope = scope] :
     c \in {"spa", "native"}, scope \in BiometricScopeSets}
  \cup
  {[BaseRequest EXCEPT !.grant_type = BiometricRequestGrantType, !.client_id = c,
                       !.jwt = InteractionJWT("authenticate", "ok", 2)] :
     c \in {"spa", "native"}}
  \cup
  {[BaseRequest EXCEPT !.grant_type = BiometricRequestGrantType, !.client_id = "native",
                       !.jwt = InteractionJWT("authenticate", "ok", 1),
                       !.scope = DefaultScopes, !.fault = f] : f \in BiometricFaults}
  \cup
  {[BaseRequest EXCEPT !.grant_type = BiometricRequestGrantType, !.client_id = "native",
                       !.jwt = InteractionJWT("authenticate", outcome, 1)] :
     outcome \in {"Disallowed", "InvalidCredentials", "incomplete"}}
  \cup
  {[BaseRequest EXCEPT !.grant_type = BiometricRequestGrantType, !.client_id = "legacy",
                       !.jwt = InteractionJWT("authenticate", "ok", 1)],
   [BaseRequest EXCEPT !.grant_type = BiometricRequestGrantType, !.client_id = "native",
                       !.jwt = InteractionJWT("authenticate", "ok", 1),
                       !.deviceInfoOK = FALSE]}

BiometricSetupRequests ==
  {[BaseRequest EXCEPT !.grant_type = BiometricRequestGrantType, !.client_id = "native",
                       !.jwt = jwt,
                       !.session = [kind |-> "idp", id |-> 7, tokenHash |-> 0]] :
     jwt \in {InteractionJWT("setup", "ok", 2), InteractionJWT("setup", "Disallowed", 2),
              InteractionJWT("remove", "ok", 2),
              [InteractionJWT("setup", "ok", 2) EXCEPT !.form = "malformed"]}}
  \cup
  {[BaseRequest EXCEPT !.grant_type = BiometricRequestGrantType, !.client_id = "native",
                       !.jwt = InteractionJWT("setup", "ok", 2)],
   [BaseRequest EXCEPT !.grant_type = BiometricRequestGrantType, !.client_id = "native",
                       !.jwt = InteractionJWT("setup", "ok", 2),
                       !.session = [kind |-> "idp", id |-> 7, tokenHash |-> 0],
                       !.fault = "Graphs.Run"]}

AnonymousRequests ==
  {[BaseRequest EXCEPT !.grant_type = AnonymousRequestGrantType, !.client_id = "spa",
                       !.jwt = InteractionJWT("auth", outcome, 0), !.fault = f] :
     outcome \in {"ok", "Disallowed"}, f \in {"none", "Graphs.Run"}}
  \cup
  {[BaseRequest EXCEPT !.grant_type = AnonymousRequestGrantType, !.client_id = "legacy",
                       !.jwt = InteractionJWT("auth", "ok", 0)]}

BiometricRequests ==
  BiometricAuthenticateRequests \cup BiometricSetupRequests \cup AnonymousRequests

NextBiometric ==
  \/ \E r \in BiometricRequests : Handle(r)
  \/ Respond
  \/ Tick

SpecBiometric == InitBiometric /\ [][NextBiometric]_vars

(***************************************************************************)
(* C23.  One device per biometric identity.                                *)
(***************************************************************************)
IsBiometricAuthenticate(a) ==
  /\ a.req.grant_type = BiometricRequestGrantType
  /\ a.req.jwt.form = "ok"
  /\ a.req.jwt.action = "authenticate"

\* The grants the user of a held with the identity of a before the request.
GrantsOfIdentityBefore(a) ==
  {g \in a.pre.og : g.UserID = a.req.jwt.UserID /\ g.IdentityID = a.req.jwt.IdentityID}

\* The grants the issuance revokes for a client limited to one session.
RevokedForSingleSession(a) ==
  IF ClientConfig(a.req.client_id).MaxConcurrentSession = 1
    THEN ClientOfflineGrants(a.pre.og, a.req.client_id, a.req.jwt.UserID)
  ELSE {}

\* C23: after a successful biometric authenticate request for identity I
\* exactly one offline grant with IdentityID = I is stored, the one just
\* issued; the grants the user held with that identity were deleted before
\* the new grant was created; the grants of another identity are all still
\* stored and unchanged, apart from those that the issuance revokes for a
\* client limited to one concurrent session.
C23_OneDevicePerIdentity ==
  (Answered /\ IsBiometricAuthenticate(last[1]) /\ last[1].error = "")
    => /\ Cardinality({g \in offlineGrants :
                         g.IdentityID = last[1].req.jwt.IdentityID}) = 1
       /\ \A g \in offlineGrants :
            g.IdentityID = last[1].req.jwt.IdentityID
              => /\ g.ID >= last[1].pre.tok
                 /\ ~HasOfflineGrant(last[1].pre.og, g.ID)
                 /\ HashToken(last[1].resp.refresh_token)
                      \in {t.TokenHash : t \in g.RefreshTokens}
       /\ GrantsOfIdentityBefore(last[1]) \cap offlineGrants = {}
       /\ GrantsOfIdentityBefore(last[1]) # {}
            => /\ Performed(last[1], "DeleteOfflineGrant")
               /\ CallIndex(last[1], "DeleteOfflineGrant")
                    < CallIndex(last[1], "IssueOfflineGrant")
       /\ \A g \in last[1].pre.og :
            g.IdentityID # last[1].req.jwt.IdentityID
              => g \in offlineGrants \/ g \in RevokedForSingleSession(last[1])

\* A login with identity 1 on client native has replaced the two grants of
\* that identity and has kept the grant of identity 2.
C23_Witness ==
  /\ Answered
  /\ IsBiometricAuthenticate(last[1])
  /\ last[1].error = ""
  /\ last[1].req.client_id = "native"
  /\ Cardinality(GrantsOfIdentityBefore(last[1])) = 2
  /\ \E g \in offlineGrants : g.IdentityID = 2 /\ g \in last[1].pre.og
  /\ \E g \in offlineGrants : g.IdentityID = 1 /\ g.ID >= last[1].pre.tok

(***************************************************************************)
(* C24.  The scope rule of a biometric login.                              *)
(***************************************************************************)
EffectiveScopes(r) == IF r.scope # {} THEN r.scope ELSE DefaultScopes

RefusedByScopeRule(a) ==
  /\ IsBiometricAuthenticate(a)
  /\ ~ContainsAllScopes(EffectiveScopes(a.req), {OfflineAccess, FullAccessScope})
  /\ a.error = "invalid_scope"
  /\ a.error_description = "offline_access and full-access must be requested"

\* C24: a biometric authenticate request refused by the scope rule has
\* deleted and created no offline grant, has granted no authorization and
\* has not committed the authentication interaction.
C24_ScopeRuleHasNoEffect ==
  (Answered /\ RefusedByScopeRule(last[1]))
    => /\ offlineGrants = last[1].pre.og
       /\ authorizations = last[1].pre.az
       /\ ~Performed(last[1], "Graphs.Run")

(***************************************************************************)
(* C25.  An app2app challenge is used once.                                *)
(***************************************************************************)
\* The JWT whose challenge the request a would have verified: the JWT of an
\* app2app request, the device-key JWT of a code exchange.
ChallengeJWT(a) ==
  IF a.req.grant_type = App2AppRequestGrantType THEN a.req.jwt
  ELSE a.req.app2app_device_key_jwt

PresentsChallenge(a) ==
  /\ a.req.grant_type \in {App2AppRequestGrantType, AuthorizationCodeGrantType}
  /\ ChallengeJWT(a).form = "ok"

\* The challenge of a was stored once and had been consumed before a.
ChallengeConsumedBefore(a) ==
  /\ PresentsChallenge(a)
  /\ HasChallenge(StoredChallenges, ChallengeJWT(a).challenge)
  /\ ~HasChallenge(a.pre.ch, ChallengeJWT(a).challenge)

\* The challenge of a is stored for another purpose than app2app requests.
ChallengeOfOtherPurpose(a) ==
  /\ PresentsChallenge(a)
  /\ \E c \in a.pre.ch :
       c.Token = ChallengeJWT(a).challenge /\ c.Purpose # PurposeApp2AppRequest

\* The handler of a reads the JWT: every app2app request does, and the code
\* exchange of a client with app2app enabled.
ReadsChallengeJWT(a) ==
  \/ a.req.grant_type = App2AppRequestGrantType
  \/ ClientConfig(a.req.client_id).App2appEnabled

\* C25 as stated: every request whose JWT embeds a consumed challenge fails
\* with invalid_request.
C25_AsStated ==
  (Answered /\ ChallengeConsumedBefore(last[1])) => last[1].error = "invalid_request"

\* C25: an app2app request, or a code exchange by a client with app2app
\* enabled, whose JWT embeds a challenge consumed before, or a challenge
\* stored for another purpose, fails and returns neither tokens nor code;
\* when it gets as far as the verification of the challenge, it fails there
\* with invalid_request.  A code exchange by a client without app2app never
\* looks at the challenge.
C25_ChallengeIsSingleUse ==
  Answered =>
    /\ ((ChallengeConsumedBefore(last[1]) \/ ChallengeOfOtherPurpose(last[1]))
        /\ ReadsChallengeJWT(last[1]))
         => /\ last[1].error # ""
            /\ ~IssuesTokens(last[1].resp)
            /\ last[1].resp.code = 0
            /\ Performed(last[1], "Challenges.Consume")
                 => /\ last[1].error = "invalid_request"
                    /\ last[1].error_description = "invalid app2app jwt challenge"
                    /\ StoppedAfter(last[1], "Challenges.Consume")
    /\ (PresentsChallenge(last[1]) /\ ~ReadsChallengeJWT(last[1]))
         => /\ ~Performed(last[1], "Challenges.Consume")
            /\ challenges = last[1].pre.ch

\* An app2app request has presented, with a valid refresh token, a challenge
\* that an earlier request consumed, and has been refused for it.
C25_Witness ==
  /\ Answered
  /\ last[1].req.grant_type = App2AppRequestGrantType
  /\ ChallengeConsumedBefore(last[1])
  /\ ChallengeJWT(last[1]).challenge \in {1, 2}
  /\ Performed(last[1], "Challenges.Consume")
  /\ last[1].error = "invalid_request"

(***************************************************************************)
(* C26.  The code minted by an app2app request.                            *)
(***************************************************************************)
IsApp2AppSuccess(a) ==
  a.req.grant_type = App2AppRequestGrantType /\ a.error = ""

\* The refresh-token session the request a presented, as stored before it.
OriginalSession(a) ==
  LET tokenHash == HashToken(a.req.refresh_token)
  IN ToSession(CHOOSE g \in GrantOfRefreshToken(a.pre.og, tokenHash) : TRUE, tokenHash)

\* The code grants created for the code that a returned.
MintedCodeGrants(a) ==
  {g \in codeGrants \ a.pre.cg : g.CodeHash = HashToken(a.resp.code)}

\* C26: the code grant created by a successful app2app request is for the
\* requesting client and for the user of the original offline grant, carries
\* exactly the scopes of the original refresh-token session and has no DPoP
\* JKT.
C26_MintedCodeGrant ==
  (Answered /\ IsApp2AppSuccess(last[1]))
    => /\ Cardinality(MintedCodeGrants(last[1])) = 1
       /\ \A g \in MintedCodeGrants(last[1]) :
            /\ \E authz \in authorizations :
                 /\ authz.ID = g.AuthorizationID
                 /\ authz.ClientID = last[1].req.client_id
            /\ g.UserID = OriginalSession(last[1]).OfflineGrant.UserID
            /\ g.DPoPJKT = 0
            /\ g.Scopes = OriginalSession(last[1]).Scopes

(***************************************************************************)
(* C27.  How Handle surfaces the failure of a handler.                     *)
(***************************************************************************)
\* The error doHandle returned for the request a.
HandlerError(a) == doHandle(PreState(a), a.req, ClientConfig(a.req.client_id)).err

\* The answer a surfaces the handler error err as Handle should.
SurfacedAs(a, err) ==
  /\ err.kind = "none" <=> a.error = ""
  /\ err.kind = "oauth"
       => /\ a.error = err.code
          /\ a.error_description = err.desc
          /\ ~a.internal
  /\ err.kind = "internal"
       => /\ a.error = "server_error"
          /\ a.error_description = "internal server error"
          /\ a.error_description # err.desc
          /\ a.internal
  /\ a.error # "" => (a.resp = EmptyResponse /\ ~IssuesTokens(a.resp))

\* C27: a handler failure that is an OAuth protocol error is answered with
\* its own code and description; every other failure is answered
\* server_error, "internal server error", marked internal, with nothing of
\* the underlying error; no failed request returns tokens.
C27_ErrorSurfacing ==
  (Answered /\ ClientResolves(last[1].req.client_id))
    => SurfacedAs(last[1], HandlerError(last[1]))

\* A login has failed in the token service after its grant was issued and
\* has been answered server_error.
C27_Witness ==
  /\ Answered
  /\ last[1].req.fault = "IssueAccessGrant"
  /\ Performed(last[1], "IssueOfflineGrant")
  /\ StoppedAfter(last[1], "IssueAccessGrant")
  /\ last[1].error = "server_error"
  /\ last[1].internal

(***************************************************************************)
(* C28.  The grant is deleted after the issuance.                          *)
(***************************************************************************)
\* The call that deletes the grant of the exchange a.
DeleteCallOf(a) ==
  IF IsSettingsExchange(a) THEN "DeleteSettingsActionGrant" ELSE "DeleteCodeGrant"

\* C28: in a code exchange and in a settings-action exchange the delete call
\* is the last call of a request that succeeds, made after the issuance; an
\* exchange that ends in an error has made no delete call and leaves the
\* code grants and the settings-action grants as they were.
C28_DeleteAfterIssue ==
  (Answered /\ (IsCodeExchange(last[1].req) \/ IsSettingsExchange(last[1])))
    => /\ last[1].error # ""
            => /\ ~Performed(last[1], "DeleteCodeGrant")
               /\ ~Performed(last[1], "DeleteSettingsActionGrant")
               /\ codeGrants = last[1].pre.cg
               /\ settingsActionGrants = last[1].pre.sg
       /\ Performed(last[1], DeleteCallOf(last[1]))
            => /\ last[1].error = ""
               /\ CallIndex(last[1], DeleteCallOf(last[1])) = Len(last[1].calls)
               /\ IsCodeExchange(last[1].req)
                    => /\ Performed(last[1], "IssueAccessGrant")
                       /\ IssuesTokens(last[1].resp)
       /\ (codeGrants # last[1].pre.cg \/ settingsActionGrants # last[1].pre.sg)
            => Performed(last[1], DeleteCallOf(last[1]))

\* A code exchange has passed every check, has issued an offline grant and
\* has then failed in the token service; the code is still stored.
C28_Witness ==
  /\ Answered
  /\ IsCodeExchange(last[1].req)
  /\ StoppedAfter(last[1], "IssueAccessGrant")
  /\ Performed(last[1], "IssueOfflineGrant")
  /\ last[1].error = "server_error"
  /\ HasCodeGrant(codeGrants, HashToken(last[1].req.code))

(***************************************************************************)
(* C29.  A failing delete is swallowed.                                    *)
(***************************************************************************)
\* The delete call of the exchange a was made and failed.
DeleteFailed(a) ==
  /\ IsCodeExchange(a.req) \/ IsSettingsExchange(a)
  /\ a.req.fault = DeleteCallOf(a)
  /\ Performed(a, DeleteCallOf(a))

\* C29: an exchange whose delete call fails is answered with the successful
\* response, tokens for a code exchange and the empty response for a
\* settings-action exchange, and never with an error; the grant is still
\* stored, and the same exchange made again at once, with a delete that
\* works, succeeds again.
C29_DeleteFailureIsSwallowed ==
  (Answered /\ DeleteFailed(last[1]))
    => /\ last[1].error = ""
       /\ ~last[1].internal
       /\ IsCodeExchange(last[1].req)
            => /\ IssuesTokens(last[1].resp)
               /\ HasCodeGrant(codeGrants, HashToken(last[1].req.code))
       /\ IsSettingsExchange(last[1])
            => /\ last[1].resp = EmptyResponse
               /\ HasSettingsActionGrant(settingsActionGrants, HashToken(last[1].req.code))
       /\ codeGrants = last[1].pre.cg
       /\ settingsActionGrants = last[1].pre.sg
       /\ HandleResult([last[1].req EXCEPT !.fault = "none"]).error = ""

\* A code that returned tokens while its delete failed has been exchanged
\* for tokens a second time.
C29_Witness ==
  /\ Answered
  /\ IsCodeExchange(last[1].req)
  /\ last[1].req.code \in last[1].pre.exchanged
  /\ last[1].req.code \notin last[1].pre.consumed
  /\ last[1].error = ""
  /\ IssuesTokens(last[1].resp)

(***************************************************************************)
(* C30.  The default branch of the dispatch switch.                        *)
(***************************************************************************)
\* The request r passes validateRequest and the allow-list of its client.
PassesValidationAndAllowList(r) ==
  /\ ClientResolves(r.client_id)
  /\ validateRequest(r, ClientConfig(r.client_id)) = NoError
  /\ r.grant_type \in (ClientConfig(r.client_id).GrantTypes \cup whitelistedGrantTypes)

\* C30: no request reaches the default branch of the dispatch switch: a
\* request that passes validateRequest and the allow-list of its client has
\* one of the eight grant types of the switch; a grant type outside them is
\* refused by validateRequest, also for a client whose configuration allows
\* it.
C30_DefaultBranchUnreachable ==
  Answered =>
    /\ ~Performed(last[1], "panic")
    /\ last[1].error_description # "oauth: unexpected grant type"
    /\ PassesValidationAndAllowList(last[1].req)
         => last[1].req.grant_type \in whitelistedGrantTypes
    /\ (ClientResolves(last[1].req.client_id)
        /\ last[1].req.grant_type \notin whitelistedGrantTypes)
         => /\ last[1].error = "unsupported_grant_type"
            /\ NoHandlerRan(last[1])

\* Client custom, whose configuration allows the grant type password, has
\* asked for it and has been refused by validateRequest.
C30_Witness ==
  /\ Answered
  /\ last[1].req.client_id = "custom"
  /\ last[1].req.grant_type = "password"
  /\ last[1].req.grant_type \in ClientConfig("custom").GrantTypes
  /\ last[1].error = "unsupported_grant_type"

(***************************************************************************)
(* C31.  A rotation of the device secret is all or nothing.                *)
(***************************************************************************)
\* The rotation of the request a failed in computing the expiry or in the
\* store update.
RotationFailed(a) ==
  /\ a.req.fault \in {"ComputeOfflineGrantExpiry", "UpdateOfflineGrantDeviceSecretHash"}
  /\ StoppedAfter(a, a.req.fault)

\* The stored grants whose device-secret hash the request a changed.
GrantsWithNewHash(a) ==
  {g \in offlineGrants :
     \E old \in a.pre.og : old.ID = g.ID /\ old.DeviceSecretHash # g.DeviceSecretHash}

NumberOfCalls(a, call) == Cardinality({i \in 1..Len(a.calls) : a.calls[i] = call})

\* C31: a request whose rotation fails is answered with an error and without
\* a device secret, and every stored grant keeps its hash, its DPoP JKT and
\* its expiry; a grant whose hash a request changed was written by one
\* store update that also set the JKT of the request's DPoP proof and the
\* recomputed expiry, and a successful answer that carries a device secret
\* carries the one whose hash is stored.
C31_RotationAllOrNothing ==
  Answered =>
    /\ RotationFailed(last[1])
         => /\ last[1].error # ""
            /\ last[1].resp.device_secret = 0
            /\ \A old \in last[1].pre.og : \E g \in offlineGrants :
                 /\ g.ID = old.ID
                 /\ g.DeviceSecretHash = old.DeviceSecretHash
                 /\ g.DeviceSecretDPoPJKT = old.DeviceSecretDPoPJKT
                 /\ g.ExpireAt = old.ExpireAt
    /\ \A g \in GrantsWithNewHash(last[1]) :
         /\ NumberOfCalls(last[1], "UpdateOfflineGrantDeviceSecretHash") = 1
         /\ last[1].req.fault # "UpdateOfflineGrantDeviceSecretHash"
         /\ g.DeviceSecretDPoPJKT = last[1].req.dpop
         /\ g.ExpireAt = ComputeOfflineGrantExpiry(g)
         /\ (last[1].error = "" /\ last[1].resp.device_secret # 0)
              => g.DeviceSecretHash = HashToken(last[1].resp.device_secret)

\* An ID-token request presenting the stored device secret has failed in the
\* store update of its rotation.
C31_Witness ==
  /\ Answered
  /\ last[1].req.grant_type = IDTokenGrantType
  /\ last[1].req.fault = "UpdateOfflineGrantDeviceSecretHash"
  /\ RotationFailed(last[1])
  /\ last[1].error = "server_error"
  /\ offlineGrants = last[1].pre.og

(***************************************************************************)
(* C32.  The interaction is committed only after a completed dry run.      *)
(***************************************************************************)
IsInteractionRequest(a) ==
  a.req.grant_type \in {AnonymousRequestGrantType, BiometricRequestGrantType}

\* The dry run of the request a completed without error and without a
\* pending edge.
DryRunCompleted(a) ==
  /\ Performed(a, "Graphs.DryRun")
  /\ a.req.jwt.form = "ok"
  /\ a.req.jwt.outcome = "ok"

\* C32: an anonymous or biometric request calls Graphs.Run only after its
\* dry run, and only when the dry run completed without error and without
\* a pending edge; a request whose dry run did not complete fails without
\* calling Graphs.Run and creates no authorization, offline grant or token.
C32_DryRunBeforeCommit ==
  (Answered /\ IsInteractionRequest(last[1])) =>
    /\ Performed(last[1], "Graphs.Run")
         => /\ DryRunCompleted(last[1])
            /\ CallIndex(last[1], "Graphs.DryRun") < CallIndex(last[1], "Graphs.Run")
    /\ (Performed(last[1], "Graphs.DryRun") /\ ~DryRunCompleted(last[1]))
         => /\ last[1].error # ""
            /\ StoppedAfter(last[1], "Graphs.DryRun")
            /\ ~IssuesTokens(last[1].resp)
            /\ authorizations = last[1].pre.az
            /\ offlineGrants = last[1].pre.og
            /\ nextToken = last[1].pre.tok

\* An anonymous request whose dry run was refused has been answered.
C32_Witness ==
  /\ Answered
  /\ last[1].req.grant_type = AnonymousRequestGrantType
  /\ last[1].req.jwt.outcome = "Disallowed"
  /\ StoppedAfter(last[1], "Graphs.DryRun")
  /\ last[1].error = "unauthorized_client"
  /\ offlineGrants = last[1].pre.og

(***************************************************************************)
(* Session limit: clients that allow one session per user (a public and a  *)
(* confidential one) and one that allows many redeem a code authenticated  *)
(* by an IdP session and a code authenticated by an offline grant of       *)
(* another client, and log in anonymously and by biometric.                *)
(***************************************************************************)
\* Code 1 was authenticated by the IdP session, code 2 by offline grant 3.
LimitCodeGrants ==
  {[StoredCodeGrant(S256Challenge(2), 0, SessionScopes, NoSID)
      EXCEPT !.ExpireAt = MaxTime],
   [StoredCodeGrant(S256Challenge(2), 0, SessionScopes, NoSID)
      EXCEPT !.CodeHash = HashToken(2), !.ExpireAt = MaxTime,
             !.AuthenticatedBySessionType = "offline_grant",
             !.AuthenticatedBySessionID = 3]}

InitLimit ==
  \E og \in {{}, {StoredIdentityGrant(1, "spa", 1)}} :
    InitWith(LimitCodeGrants,
             {[UserAuthorization EXCEPT !.Scopes = DefaultScopes]},
             og \cup {StoredIdentityGrant(3, "native", 2)}, {}, {})

LimitRequests ==
  {[BaseRequest EXCEPT !.client_id = c, !.code = code, !.redirect_uri = 1,
                       !.code_verifier = 2, !.client_secret = 1] :
     c \in {"spa", "native", "service"}, code \in {1, 2}}
  \cup
  {[BaseRequest EXCEPT !.client_id = "spa", !.code = 1, !.redirect_uri = 1,
                       !.code_verifier = 2, !.fault = f] :
     f \in {"RevokeWithoutEvent", "IssueOfflineGrant", "IssueAccessGrant"}}
  \cup
  {[BaseRequest EXCEPT !.grant_type = AnonymousRequestGrantType, !.client_id = "spa",
                       !.jwt = InteractionJWT("auth", "ok", 0)],
   [BaseRequest EXCEPT !.grant_type = BiometricRequestGrantType, !.client_id = "spa",
                       !.jwt = InteractionJWT("authenticate", "ok", 2)]}

NextLimit ==
  \/ \E r \in LimitRequests : Handle(r)
  \/ Respond
  \/ Tick

SpecLimit == InitLimit /\ [][NextLimit]_vars

(***************************************************************************)
(* C33.  The session limit of a client with MaxConcurrentSession = 1.      *)
(***************************************************************************)
OneSessionClients == {c \in ClientIDs : ClientConfig(c).MaxConcurrentSession = 1}

NumberOfGrants(og, clientID) == Cardinality(ClientOfflineGrants(og, clientID, "u1"))

\* The request a issued a new offline grant and returned its refresh token.
IssuedGrantWithRefreshToken(a) ==
  /\ a.error = ""
  /\ Performed(a, "IssueOfflineGrant")
  /\ a.resp.refresh_token # 0

\* The exchange a took one of the two branches that do not revoke: the code
\* was authenticated by an offline grant, which got the client's refresh
\* token (1566-1577), or the client is confidential and got a grant without
\* a refresh token (1628-1641).
TookBranchWithoutRevocation(a) ==
  /\ IsCodeExchange(a.req)
  /\ \/ Performed(a, "IssueRefreshTokenForOfflineGrant")
     \/ /\ IsConfidential(ClientConfig(a.req.client_id))
        /\ Performed(a, "IssueOfflineGrant")
        /\ a.resp.refresh_token = 0

\* The statement as it was made: a one-session client never has more than
\* one offline grant of the user.
C33_AsStated ==
  \A c \in OneSessionClients : NumberOfGrants(offlineGrants, c) <= 1

\* C33: for a client with MaxConcurrentSession = 1, a request that issues a
\* new offline grant together with its refresh token leaves that grant as
\* the only one of the (client, user) pair; the number of grants of such a
\* pair grows beyond one only by an exchange of that client on a branch
\* that does not revoke, and then by one.
C33_SessionLimit ==
  Answered =>
    /\ (last[1].req.client_id \in OneSessionClients /\ IssuedGrantWithRefreshToken(last[1]))
         => /\ NumberOfGrants(offlineGrants, last[1].req.client_id) = 1
            /\ \A g \in ClientOfflineGrants(offlineGrants, last[1].req.client_id, "u1") :
                 /\ ~HasOfflineGrant(last[1].pre.og, g.ID)
                 /\ \E t \in g.RefreshTokens :
                      t.TokenHash = HashToken(last[1].resp.refresh_token)
    /\ \A c \in OneSessionClients :
         (/\ NumberOfGrants(offlineGrants, c) > 1
          /\ NumberOfGrants(offlineGrants, c) > NumberOfGrants(last[1].pre.og, c))
           => /\ last[1].req.client_id = c
              /\ TookBranchWithoutRevocation(last[1])
              /\ NumberOfGrants(offlineGrants, c) = NumberOfGrants(last[1].pre.og, c) + 1

\* The public one-session client held a grant of its own and the grant of
\* another client that had authenticated a code; a new login replaced both.
C33_Witness ==
  /\ Answered
  /\ last[1].req.client_id = "spa"
  /\ IssuedGrantWithRefreshToken(last[1])
  /\ NumberOfGrants(last[1].pre.og, "spa") = 2
  /\ NumberOfGrants(offlineGrants, "spa") = 1

(***************************************************************************)
(* Concurrent requests.  Each request is handled by a request-scoped       *)
(* execution; the executions share nothing but the stores, and each call   *)
(* to a store is a step of its own.  An execution keeps what it has read   *)
(* (the code grant, the session of the refresh token, the verified key)    *)
(* and the response it is assembling.                                      *)
(***************************************************************************)
Executions == {1, 2}

Execution(r) ==
  [pc |-> "start", req |-> r, read |-> << >>, key |-> 0, error |-> "",
   resp |-> EmptyResponse]

\* The error of a result as Handle writes it (230-254).
WrittenError(res) ==
  CASE res.err.kind = "oauth" -> res.err.code
    [] res.err.kind = "internal" -> "server_error"
    [] OTHER -> ""

\* The execution has ended with the result res.
Finished(e, res) ==
  [e EXCEPT !.pc = "done", !.error = WrittenError(res),
            !.resp = IF Failed(res) THEN EmptyResponse ELSE res.st.resp]

\* The stores as a step leaves them.
StoresWritten(st) ==
  /\ codeGrants' = st.cg
  /\ settingsActionGrants' = st.sg
  /\ authorizations' = st.az
  /\ offlineGrants' = st.og
  /\ challenges' = st.ch
  /\ idTokens' = st.ids
  /\ nextToken' = st.tok

ReturnedTokens(e) == e.pc = "done" /\ e.error = "" /\ IssuesTokens(e.resp)

(***************************************************************************)
(* Two concurrent code exchanges (IssueTokensForAuthorizationCode,         *)
(* 503-597): the lookup of the code grant (513-519), the checks and the    *)
(* issuance (521-589) and the deletion (591-594) are separate steps.       *)
(***************************************************************************)
\* 513-519
ExchangeGetCodeGrant(p) ==
  LET e == inflight[p]
      codeHash == HashToken(e.req.code)
  IN /\ e.pc = "start"
     /\ inflight' = [inflight EXCEPT ![p] =
          IF ~HasCodeGrant(codeGrants, codeHash)
            THEN Finished(e, Fail(Begin, errInvalidAuthzCode))
          ELSE [e EXCEPT !.pc = "got", !.read = <<GetCodeGrant(codeGrants, codeHash)>>]]
     /\ UNCHANGED <<now, codeGrants, settingsActionGrants, authorizations, offlineGrants,
                    challenges, idTokens, nextToken, steps, hist, last>>

\* 521-589
ExchangeIssueTokens(p) ==
  LET e == inflight[p]
      r == e.req
      client == ClientConfig(r.client_id)
      codeGrant == e.read[1]
      written(res) ==
        /\ StoresWritten(res.st)
        /\ inflight' = [inflight EXCEPT ![p] =
             IF Failed(res) THEN Finished(e, res)
             ELSE [e EXCEPT !.pc = "issued", !.resp = res.st.resp]]
      issue(checks) ==
        LET st2 == Called(checks.st, "Authorizations.GetByID")
        IN IF Failed(checks) THEN checks
           ELSE IF ~HasAuthorization(st2.az, codeGrant.AuthorizationID)
             THEN Fail(st2, errInvalidAuthzCode)
           ELSE doIssueTokensForAuthorizationCode(
                  st2, r, client, codeGrant,
                  GetAuthorization(st2.az, codeGrant.AuthorizationID))
  IN /\ e.pc = "got"
     /\ written(issue(codeGrantChecks(Begin, r, client, codeGrant)))
     /\ UNCHANGED <<now, steps, hist, last>>

\* 591-594
ExchangeDeleteCodeGrant(p) ==
  LET e == inflight[p]
  IN /\ e.pc = "issued"
     /\ codeGrants' = DeleteCodeGrant(Begin, e.req, e.read[1]).cg
     /\ inflight' = [inflight EXCEPT ![p] = [e EXCEPT !.pc = "done"]]
     /\ UNCHANGED <<now, settingsActionGrants, authorizations, offlineGrants, challenges,
                    idTokens, nextToken, steps, hist, last>>

\* Exchanges of code 1 by two public clients, with the right and a wrong
\* verifier.
ConcurrentCodeRequests ==
  {[BaseRequest EXCEPT !.client_id = c, !.code = 1, !.redirect_uri = 1,
                       !.code_verifier = v] :
     c \in {"spa", "native"}, v \in {2, 3}}

InitConcurrentCode ==
  /\ InitStores({StoredCodeGrant(S256Challenge(2), 0, {"openid", OfflineAccess}, NoSID)},
                {}, {UserAuthorization}, {}, {}, {})
  /\ \E r1 \in ConcurrentCodeRequests, r2 \in ConcurrentCodeRequests :
       inflight = <<Execution(r1), Execution(r2)>>

NextConcurrentCode ==
  \/ \E p \in Executions : ExchangeGetCodeGrant(p)
  \/ \E p \in Executions : ExchangeIssueTokens(p)
  \/ \E p \in Executions : ExchangeDeleteCodeGrant(p)
  \/ Tick

SpecConcurrentCode == InitConcurrentCode /\ [][NextConcurrentCode]_vars

(***************************************************************************)
(* C34.  Two concurrent exchanges of one code.                             *)
(***************************************************************************)
\* C34: of two concurrent authorization_code requests that present the
\* same valid code, at most one returns tokens.
C34_AtMostOneReturnsTokens ==
  (inflight[1].req.code = inflight[2].req.code)
    => ~(ReturnedTokens(inflight[1]) /\ ReturnedTokens(inflight[2]))

(***************************************************************************)
(* Two concurrent app2app requests (handleApp2AppRequest, 1237-1353): the  *)
(* read of the grant by its refresh token (1262-1270), the consumption of  *)
(* the challenge (1281-1284) and the binding of the key with the rest of   *)
(* the handler (1286-1353) are separate steps.  The binding decides on the *)
(* grant as it was read (1286, 472) and then calls the store (480).        *)
(***************************************************************************)
\* 1262-1270
App2AppParseRefreshToken(p) ==
  LET e == inflight[p]
      read(parsed) ==
        inflight' = [inflight EXCEPT ![p] =
          IF Failed(parsed) THEN Finished(e, parsed)
          ELSE [e EXCEPT !.pc = "read", !.read = <<parsed.val>>]]
  IN /\ e.pc = "start"
     /\ read(ParseRefreshToken(Begin, e.req))
     /\ UNCHANGED <<now, codeGrants, settingsActionGrants, authorizations, offlineGrants,
                    challenges, idTokens, nextToken, steps, hist, last>>

\* 1280-1284
App2AppConsumeChallenge(p) ==
  LET e == inflight[p]
      written(verified) ==
        /\ StoresWritten(verified.st)
        /\ inflight' = [inflight EXCEPT ![p] =
             IF Failed(verified) THEN Finished(e, verified)
             ELSE [e EXCEPT !.pc = "verified", !.key = verified.val]]
  IN /\ e.pc = "read"
     /\ written(app2appVerifyAndConsumeChallenge(Begin, e.req, e.req.jwt))
     /\ UNCHANGED <<now, steps, hist, last>>

\* 1286-1353
App2AppBindAndIssue(p) ==
  LET e == inflight[p]
      session == e.read[1]
      written(res) ==
        /\ StoresWritten(res.st)
        /\ inflight' = [inflight EXCEPT ![p] = Finished(e, res)]
  IN /\ e.pc = "verified"
     /\ written(app2appBindAndIssue(Begin, e.req, ClientConfig(e.req.client_id),
                                    ClientConfig(session.ClientID), session, e.key))
     /\ UNCHANGED <<now, steps, hist, last>>

\* App2app requests with the refresh token of the grant's own client, each
\* with a device key of its own over a challenge.
ConcurrentKeyRequests ==
  {[BaseRequest EXCEPT !.grant_type = App2AppRequestGrantType, !.client_id = c,
                       !.refresh_token = 4, !.jwt = jwt, !.redirect_uri = 1,
                       !.code_challenge = S256Challenge(2),
                       !.code_challenge_method = "S256"] :
     c \in {"spa", "native"},
     jwt \in {[form |-> "ok", challenge |-> k, key |-> k, signer |-> k] : k \in {1, 2}}
              \cup {[form |-> "ok", challenge |-> 2, key |-> 1, signer |-> 2]}}

\* Grant 1 of client spa, which allows the insecure binding, has no key.
InitConcurrentKey ==
  /\ InitStores({}, {},
                {[UserAuthorization EXCEPT !.Scopes = KeyScopes],
                 [UserAuthorization EXCEPT !.ID = 2, !.ClientID = "native",
                                           !.Scopes = KeyScopes]},
                {StoredApp2AppGrant(0)}, StoredChallenges, {})
  /\ \E r1 \in ConcurrentKeyRequests, r2 \in ConcurrentKeyRequests :
       inflight = <<Execution(r1), Execution(r2)>>

NextConcurrentKey ==
  \/ \E p \in Executions : App2AppParseRefreshToken(p)
  \/ \E p \in Executions : App2AppConsumeChallenge(p)
  \/ \E p \in Executions : App2AppBindAndIssue(p)
  \/ Tick

SpecConcurrentKey == InitConcurrentKey /\ [][NextConcurrentKey]_vars

(***************************************************************************)
(* C35.  Two concurrent bindings of a device key.                          *)
(***************************************************************************)
\* The key stored on the grant the executions work on.
StoredDeviceKey ==
  IF HasOfflineGrant(offlineGrants, 1)
    THEN GetOfflineGrant(offlineGrants, 1).App2AppDeviceKeyJWKJSON ELSE 0

\* C35: of two concurrent requests that carry different device keys for a
\* grant without a key, at most one succeeds, and when both have ended and
\* one has succeeded the grant holds the key of that one.
C35_OneBindingWins ==
  (/\ \A p \in Executions : inflight[p].pc = "done"
   /\ inflight[1].req.jwt.key # inflight[2].req.jwt.key)
    => /\ ~(inflight[1].error = "" /\ inflight[2].error = "")
       /\ \A p \in Executions :
            inflight[p].error = "" => StoredDeviceKey = MarshalKey(inflight[p].req.jwt.key)

(***************************************************************************)
(* Reauthentication: codes 1, 2 and 3, authenticated at times 0, 1 and 2,  *)
(* each issued with an id_token_hint of grant 1, which was authenticated   *)
(* at time 0 or 1.                                                         *)
(***************************************************************************)
AuthTimeCodeGrants ==
  {[StoredCodeGrant(S256Challenge(2), 0, KeyScopes, EncodeSID("offline_grant", 1))
      EXCEPT !.CodeHash = HashToken(code), !.ExpireAt = MaxTime,
             !.AuthenticatedAt = code - 1] : code \in {1, 2, 3}}

InitAuthTime ==
  \E t \in {0, 1} :
    InitWith(AuthTimeCodeGrants,
             {[UserAuthorization EXCEPT !.Scopes = KeyScopes]},
             {[StoredOfflineGrant(KeyScopes, 0, 0) EXCEPT !.AuthenticatedAt = t]},
             {}, {})

AuthTimeRequests ==
  {[BaseRequest EXCEPT !.client_id = c, !.code = code, !.redirect_uri = 1,
                       !.code_verifier = 2, !.fault = f] :
     c \in {"spa", "native"}, code \in {1, 2, 3},
     f \in {"none", "GetOfflineGrant", "ComputeOfflineGrantExpiry",
            "UpdateOfflineGrantAuthenticatedAt"}}

NextAuthTime ==
  \/ \E r \in AuthTimeRequests : Handle(r)
  \/ Respond
  \/ Tick

SpecAuthTime == InitAuthTime /\ [][NextAuthTime]_vars

(***************************************************************************)
(* C36.  Reauthentication never moves the auth time backwards.             *)
(***************************************************************************)
\* The code grant the exchange a found in the store.
CodeGrantOf(a) == GetCodeGrant(a.pre.cg, HashToken(a.req.code))

\* C36: a code exchange calls UpdateOfflineGrantAuthenticatedAt only for a
\* code whose authentication time is strictly later than the one stored on
\* the grant of its id_token_hint, the call writes the time of the code,
\* and no request lowers the AuthenticatedAt of a stored grant.
C36_AuthTimeNeverMovesBack ==
  Answered =>
    /\ \A old \in last[1].pre.og : \A g \in offlineGrants :
         g.ID = old.ID
           => /\ g.AuthenticatedAt >= old.AuthenticatedAt
              /\ g.AuthenticatedAt # old.AuthenticatedAt
                   => /\ IsCodeExchange(last[1].req)
                      /\ Performed(last[1], "UpdateOfflineGrantAuthenticatedAt")
                      /\ g.AuthenticatedAt = CodeGrantOf(last[1]).AuthenticatedAt
    /\ (IsCodeExchange(last[1].req)
        /\ Performed(last[1], "UpdateOfflineGrantAuthenticatedAt"))
         => \E old \in last[1].pre.og :
              /\ EncodeSID("offline_grant", old.ID) = CodeGrantOf(last[1]).IDTokenHintSID
              /\ CodeGrantOf(last[1]).AuthenticatedAt > old.AuthenticatedAt

\* A code authenticated earlier than the grant was redeemed after a later
\* one had raised the grant's auth time, and the grant kept the later time.
C36_Witness ==
  /\ Answered
  /\ IsCodeExchange(last[1].req)
  /\ last[1].error = ""
  /\ \E g \in offlineGrants :
       /\ g.ID = 1
       /\ g.AuthenticatedAt = 2
       /\ CodeGrantOf(last[1]).AuthenticatedAt < g.AuthenticatedAt
  /\ \E old \in last[1].pre.og : old.ID = 1 /\ old.AuthenticatedAt = 2
  /\ ~Performed(last[1], "UpdateOfflineGrantAuthenticatedAt")

(***************************************************************************)
(* C37.  The ds_hash of an ID token is the hash stored on the grant.       *)
(***************************************************************************)
IsSecretGrantType(r) ==
  r.grant_type \in {RefreshTokenGrantType, IDTokenGrantType, TokenExchangeGrantType}

\* C37: in every successful response to a refresh-token, id-token or
\* pre-authenticated-URL request, the ds_hash of the ID token issued is the
\* DeviceSecretHash stored on the grant of its sid when the request
\* completes, and a device_secret in the response hashes to the hash
\* stored on that grant.
C37_DSHashConsistency ==
  (Answered /\ IsSecretGrantType(last[1].req) /\ last[1].error = "") =>
    /\ \A t \in last[1].resp.id_token :
         (t.SID # NoSID /\ DecodeSIDOK(t.SID) /\ t.SID[1] = "offline_grant")
           => /\ HasOfflineGrant(offlineGrants, t.SID[2])
              /\ t.ds_hash = GetOfflineGrant(offlineGrants, t.SID[2]).DeviceSecretHash
    /\ last[1].resp.device_secret # 0
         => \E g \in offlineGrants :
              /\ g.DeviceSecretHash = HashToken(last[1].resp.device_secret)
              /\ \A t \in last[1].resp.id_token : t.SID = EncodeSID("offline_grant", g.ID)

\* A refresh has rotated the device secret and returned it with an ID token.
C37_Witness ==
  /\ Answered
  /\ last[1].req.grant_type = RefreshTokenGrantType
  /\ last[1].error = ""
  /\ last[1].resp.device_secret # 0
  /\ last[1].resp.id_token # {}
  /\ \E g \in offlineGrants, old \in last[1].pre.og :
       /\ g.ID = old.ID
       /\ g.DeviceSecretHash # old.DeviceSecretHash
       /\ \A t \in last[1].resp.id_token : t.ds_hash = g.DeviceSecretHash

(***************************************************************************)
(* App2app requests on grant 1, which holds refresh tokens of three        *)
(* original clients: spa (4; insecure binding enabled), native (6; insecure *)
(* binding disabled) and legacy (8; insecure binding enabled, app2app      *)
(* disabled).  The grant has no key or the key 1.                          *)
(***************************************************************************)
StoredSharedGrant(keyJSON) ==
  [StoredApp2AppGrant(keyJSON) EXCEPT
     !.RefreshTokens = @ \cup {[TokenHash |-> HashToken(8), ClientID |-> "legacy",
                                Scopes |-> KeyScopes, AuthorizationID |-> 3]}]

InitApp2App ==
  \E keyJSON \in {0, MarshalKey(1)} :
    InitWith({},
             {[UserAuthorization EXCEPT !.Scopes = KeyScopes],
              [UserAuthorization EXCEPT !.ID = 2, !.ClientID = "native",
                                        !.Scopes = KeyScopes],
              [UserAuthorization EXCEPT !.ID = 3, !.ClientID = "legacy",
                                        !.Scopes = KeyScopes]},
             {StoredSharedGrant(keyJSON)}, StoredChallenges, {})

\* JWTs over the challenges 1 and 2 that carry a key and are signed by it or
\* by another key, and a JWT over the challenge of another purpose.
App2AppJWTs ==
  {[form |-> "ok", challenge |-> 1, key |-> 1, signer |-> 1],
   [form |-> "ok", challenge |-> 2, key |-> 2, signer |-> 2],
   [form |-> "ok", challenge |-> 2, key |-> 1, signer |-> 2],
   [form |-> "ok", challenge |-> 3, key |-> 1, signer |-> 1]}

App2AppOnlyRequests ==
  {[BaseRequest EXCEPT !.grant_type = App2AppRequestGrantType, !.client_id = c,
                       !.refresh_token = rt, !.jwt = jwt, !.redirect_uri = 1,
                       !.code_challenge = S256Challenge(2),
                       !.code_challenge_method = "S256"] :
     c \in {"spa", "native"}, rt \in {4, 6, 8, 9}, jwt \in App2AppJWTs}
  \cup
  {[BaseRequest EXCEPT !.grant_type = App2AppRequestGrantType, !.client_id = "native",
                       !.refresh_token = 4, !.redirect_uri = 1,
                       !.jwt = [form |-> "ok", challenge |-> 1, key |-> 1, signer |-> 1],
                       !.code_challenge = S256Challenge(2),
                       !.code_challenge_method = "S256", !.fault = f] :
     f \in {"ParseRefreshToken", "Challenges.Consume",
            "UpdateOfflineGrantApp2AppDeviceKey", "CreateCodeGrant"}}

NextApp2App ==
  \/ \E r \in App2AppOnlyRequests : Handle(r)
  \/ Respond
  \/ Tick

SpecApp2App == InitApp2App /\ [][NextApp2App]_vars

(***************************************************************************)
(* C38.  The key that verifies the signature of an app2app request.        *)
(***************************************************************************)
IsApp2AppRequest(a) == a.req.grant_type = App2AppRequestGrantType

\* The grant the refresh token of the request a named, as it was stored.
OriginalGrantBefore(a) == GrantOfRefreshToken(a.pre.og, HashToken(a.req.refresh_token))

AccessCodeGrant(n, scopes, sid) ==
  [StoredCodeGrant(S256Challenge(2), 0, scopes, sid)
     EXCEPT !.CodeHash = HashToken(n), !.ExpireAt = MaxTime]

AccessCodeGrants ==
  {AccessCodeGrant(1, SessionScopes, NoSID),
   [AccessCodeGrant(2, SessionScopes, NoSID)
      EXCEPT !.AuthenticatedBySessionType = "offline_grant",
             !.AuthenticatedBySessionID = 3],
   AccessCodeGrant(3, {"openid"}, NoSID),
   AccessCodeGrant(4, {"openid"}, EncodeSID("offline_grant", 3)),
   AccessCodeGrant(5, {"openid"}, EncodeSID("idp", 7)),
   AccessCodeGrant(6, {"openid"}, <<"unknown", 7>>)}

InitAccess ==
  \E og \in {{}, {StoredIdentityGrant(3, "native", 2)}} :
    InitWith(AccessCodeGrants,
             {[UserAuthorization EXCEPT !.Scopes = DefaultScopes]}, og, {}, {})

AccessRequests ==
  {[BaseRequest EXCEPT !.client_id = c, !.code = code, !.redirect_uri = 1,
                       !.code_verifier = 2, !.client_secret = 1] :
     c \in {"spa", "legacy", "service"}, code \in 1..6}
  \cup
  {[BaseRequest EXCEPT !.client_id = "native", !.code = code, !.redirect_uri = 1,
                       !.code_verifier = 2, !.fault = f] :
     code \in {1, 4}, f \in {"IssueOfflineGrant", "GetOfflineGrant", "IssueAccessGrant"}}

NextAccess ==
  \/ \E r \in AccessRequests : Handle(r)
  \/ Respond
  \/ Tick

SpecAccess == InitAccess /\ [][NextAccess]_vars

(***************************************************************************)
(* C39.  Every access token of a code exchange is backed by a session.     *)
(***************************************************************************)
\* The exchange a obtained an offline grant, new or reused.
ObtainedOfflineGrant(a) ==
  Performed(a, "IssueOfflineGrant") \/ Performed(a, "IssueRefreshTokenForOfflineGrant")

\* The code of the exchange a carries an id_token_hint SID that decodes.
HasDecodableHint(a) ==
  LET code == CodeGrantOf(a)
  IN code.IDTokenHintSID # NoSID /\ DecodeSIDOK(code.IDTokenHintSID)

\* Neither a refresh token, nor a hint, nor a confidential client without a
\* hint: no branch of the code gives the exchange a a session.
NoSessionApplies(a) ==
  LET code == CodeGrantOf(a)
      client == ClientConfig(a.req.client_id)
  IN   /\ ~(OfflineAccess \in code.Scopes /\ RefreshTokenGrantType \in client.GrantTypes)
       /\ ~(code.IDTokenHintSID # NoSID /\ DecodeSIDOK(code.IDTokenHintSID))
       /\ ~(code.IDTokenHintSID = NoSID /\ IsConfidential(client))

\* C39: a code exchange calls IssueAccessGrant only after it has obtained an
\* offline grant or for a code with a decodable id_token_hint SID; the access
\* token it returns names a session ID and a session kind, those of the
\* grant obtained or of the hint; when no branch gives a session the
\* exchange fails, with invalid_request once the code has passed its
\* checks, returns no token, changes no grant and keeps the code.
C39_AccessTokenHasSession ==
  (Answered /\ IsCodeExchange(last[1].req) /\ HasCodeGrant(last[1].pre.cg, HashToken(last[1].req.code))) =>
    /\ Performed(last[1], "IssueAccessGrant")
         => (ObtainedOfflineGrant(last[1]) \/ HasDecodableHint(last[1]))
    /\ \A t \in last[1].resp.access_token :
         /\ t.SessionID # 0
         /\ t.SessionKind \in {"offline_grant", "session"}
         /\ IF ObtainedOfflineGrant(last[1])
              THEN /\ t.SessionKind = "offline_grant"
                   /\ HasOfflineGrant(offlineGrants, t.SessionID)
                   /\ Performed(last[1], "IssueOfflineGrant")
                        => ~HasOfflineGrant(last[1].pre.og, t.SessionID)
              ELSE LET code == CodeGrantOf(last[1])
                   IN
                     /\ t.SessionID = code.IDTokenHintSID[2]
                     /\ (t.SessionKind = "offline_grant")
                          <=> (code.IDTokenHintSID[1] = "offline_grant")
    /\ NoSessionApplies(last[1])
         => /\ last[1].error # ""
            /\ ~Performed(last[1], "IssueAccessGrant")
            /\ ~IssuesTokens(last[1].resp)
            /\ offlineGrants = last[1].pre.og
            /\ codeGrants = last[1].pre.cg
    /\ (last[1].error_description = "cannot issue access token")
         <=> (NoSessionApplies(last[1]) /\ Performed(last[1], "Authorizations.GetByID")
                /\ ~last[1].internal /\ last[1].error = "invalid_request"
                /\ last[1].calls[Len(last[1].calls)] = "Authorizations.GetByID")

\* A public client without offline_access and without a hint is refused.
C39_Witness ==
  /\ Answered
  /\ last[1].req.client_id = "spa"
  /\ last[1].req.code = 3
  /\ last[1].error_description = "cannot issue access token"
  /\ codeGrants = last[1].pre.cg

(***************************************************************************)
(* C40.  The order of the steps of an app2app request.                     *)
(***************************************************************************)
\* The request a was refused because its refresh token is not valid.
RejectedForRefreshToken(a) ==
  a.error = "invalid_grant" /\ StoppedAfter(a, "ParseRefreshToken")

\* The request a was refused because the signature of its JWT is not valid.
RejectedForSignature(a) == a.error_description = "invalid app2app jwt signature"

\* C40: an app2app request validates its refresh token before it consumes
\* the challenge, and consumes the challenge and writes the device key
\* before it verifies the signature of the JWT; a request refused for its
\* refresh token leaves every challenge stored; a request refused for its
\* signature has consumed its challenge and, when the grant had no key and
\* the original client has insecure binding enabled, has bound the key the
\* JWT presents.
C40_App2AppStepOrder ==
  (Answered /\ IsApp2AppRequest(last[1])) =>
    /\ Performed(last[1], "Challenges.Consume")
         => /\ Performed(last[1], "ParseRefreshToken")
            /\ CallIndex(last[1], "ParseRefreshToken")
                 < CallIndex(last[1], "Challenges.Consume")
    /\ Performed(last[1], "ParseToken")
         => /\ Performed(last[1], "Challenges.Consume")
            /\ CallIndex(last[1], "Challenges.Consume") < CallIndex(last[1], "ParseToken")
            /\ CallIndex(last[1], "UpdateOfflineGrantApp2AppDeviceKey")
                 < CallIndex(last[1], "ParseToken")
    /\ RejectedForRefreshToken(last[1])
         => /\ challenges = last[1].pre.ch
            /\ offlineGrants = last[1].pre.og
    /\ RejectedForSignature(last[1])
         => /\ HasChallenge(last[1].pre.ch, last[1].req.jwt.challenge)
            /\ ~HasChallenge(challenges, last[1].req.jwt.challenge)
            /\ \A old \in OriginalGrantBefore(last[1]) :
                 (/\ old.App2AppDeviceKeyJWKJSON = 0
                  /\ \E t \in old.RefreshTokens :
                       /\ t.TokenHash = HashToken(last[1].req.refresh_token)
                       /\ ClientConfig(t.ClientID).App2appInsecureDeviceKeyBindingEnabled)
                   => /\ Performed(last[1], "UpdateOfflineGrantApp2AppDeviceKey")
                      /\ \E g \in offlineGrants :
                           /\ g.ID = old.ID
                           /\ g.App2AppDeviceKeyJWKJSON = MarshalKey(last[1].req.jwt.key)

\* A JWT that presents key 1 and is signed by key 2 is refused on the grant
\* without a key after its challenge is gone and key 1 is bound.
C40_Witness ==
  /\ Answered
  /\ IsApp2AppRequest(last[1])
  /\ RejectedForSignature(last[1])
  /\ last[1].req.refresh_token = 4
  /\ \A old \in last[1].pre.og : old.App2AppDeviceKeyJWKJSON = 0
  /\ \E g \in offlineGrants : g.App2AppDeviceKeyJWKJSON = MarshalKey(1)
  /\ ~HasChallenge(challenges, 2)

====
